---- MODULE Spec2Model ----
(***************************************************************************)
(* Verification model of the xianyubot session core                        *)
(* (src/src/api/xianyu_websocket.py and its collaborators).                *)
(*                                                                         *)
(* Strings are sequences of tokens, one token per character of the Python  *)
(* string (Chinese characters are written as pinyin syllables, "c_fa" for  *)
(* U+53D1 and so on).  Python's `a in b` on strings is Contains(a, b).     *)
(* Time is the value of time.time() in milliseconds.                       *)
(***************************************************************************)
EXTENDS Integers, Sequences, FiniteSets, TLC

\* ------------------------------------------------------------------------
\* Strings
\* ------------------------------------------------------------------------

\* Python `sub in s` for two strings.
Contains(sub, s) ==
    \E i \in 0..(Len(s) - Len(sub)) :
        \A j \in 1..Len(sub) : s[i + j] = sub[j]

\* Python any(k in s for k in table), table a sequence of strings.
AnyIn(table, s) == \E k \in 1..Len(table) : Contains(table[k], s)

\* The first entry of table that occurs in s, <<>> when there is none
\* (the for/break loops at lines 1301-1304 and 1399-1402).
FirstIn(table, s) ==
    IF AnyIn(table, s)
    THEN table[CHOOSE k \in 1..Len(table) :
                  /\ Contains(table[k], s)
                  /\ \A m \in 1..(k - 1) : ~Contains(table[m], s)]
    ELSE <<>>

\* The thread marker and the test `".PNM" in id`.
PNM == <<".PNM">>
HasPNM(id) == Contains(PNM, id)

\* XianyuLive.system_notices, in source order.
system_notices == <<
    <<"c_ni", "c_yi3", "c_fa", "c_huo">>,
    <<"c_fa", "c_lai", "c_yi1", "c_tiao", "c_xin1", "c_xiao", "c_xi1">>,
    <<"c_yi3", "c_fu", "c_kuan">>,
    <<"c_zhun", "c_bei", "c_fa", "c_huo">>,
    <<"c_yi3", "c_xia", "c_dan">>,
    <<"c_yi3", "c_jing", "c_fu", "c_kuan">>,
    <<"c_mai3", "c_jia1", "c_liu2", "c_yan">>,
    <<"c_kuai", "c_di", "c_xin4", "c_xi1">>,
    <<"c_wu", "c_liu", "c_geng", "c_xin1">>,
    <<"c_fa", "c_huo", "c_ti", "c_xing">>,
    <<"c_deng", "c_dai", "c_mai4", "c_jia1", "c_fa", "c_huo">>,
    <<"c_mai4", "c_jia1", "c_yi3", "c_fa", "c_huo">>,
    <<"c_yi3", "c_fa", "c_huo">>,
    <<"c_fa", "c_huo", "c_cheng", "c_gong">>,
    <<"c_ding", "c_dan", "c_fa", "c_huo">>,
    <<"c_xi4", "c_tong3", "c_tong1", "c_zhi1">>,
    <<"c_yi3", "c_shou1", "c_huo">>,
    <<"c_yi3", "c_ping", "c_jia4">>,
    <<"c_yi3", "c_tui", "c_kuan">>,
    <<"c_ding", "c_dan", "c_geng", "c_xin1">>,
    <<"c_jiao", "c_yi4", "c_wan", "c_cheng">>,
    <<"c_jiao", "c_yi4", "c_guan", "c_bi">>,
    <<"c_tui", "c_kuan", "c_shen", "c_qing">>,
    <<"c_tui", "c_kuan", "c_cheng", "c_gong">>,
    <<"c_shen", "c_qing", "c_shou4", "c_hou">>,
    <<"c_ding", "c_dan", "c_bian", "c_geng">>,
    <<"c_zhi0", "c_fu", "c_cheng", "c_gong">>,
    <<"c_deng", "c_dai", "c_fu", "c_kuan">>,
    <<"c_chao", "c_shi", "c_wei", "c_fu", "c_kuan">> >>

\* XianyuLive.shipping_keywords, in source order.
shipping_keywords == <<
    <<"c_fa", "c_huo">>,
    <<"c_yi3", "c_fa", "c_huo">>,
    <<"c_deng", "c_dai", "c_mai4", "c_jia1", "c_fa", "c_huo">>,
    <<"c_fa", "c_huo", "c_tong1", "c_zhi1">>,
    <<"c_wu", "c_liu">>,
    <<"c_yun", "c_dan">>,
    <<"c_kuai", "c_di", "c_dan">>,
    <<"c_bao", "c_guo">>,
    <<"c_ji", "c_jian">>,
    <<"c_pei", "c_song">>,
    <<"c_pai", "c_song">>,
    <<"c_dai", "c_fa", "c_huo">>,
    <<"c_yi3", "c_da", "c_bao">>,
    <<"c_fa", "c_huo", "c_cheng", "c_gong">> >>

\* The keywords a task name is searched for (line 1261) and the shipping one
\* among them (line 1265).
task_keywords == <<
    <<"c_fa", "c_huo">>, <<"c_fu", "c_kuan">>,
    <<"c_ding", "c_dan">>, <<"c_tui", "c_kuan">> >>
kw_fahuo == <<"c_fa", "c_huo">>

\* price_keywords of XianyuReplyBot.generate_reply.
price_keywords == <<
    <<"c_jia4", "c_ge">>, <<"c_you", "c_hui">>, <<"c_pian", "c_yi2">>,
    <<"c_gui">>, <<"c_yuan">>, <<"c_zhe", "c_kou">>,
    <<"c_jia4", "c_qian">>, <<"c_duo", "c_shao", "c_qian">> >>

\* The literal texts the worker compares with or sends.
txt_new_message == <<"c_fa", "c_lai", "c_yi1", "c_tiao", "c_xin1", "c_xiao", "c_xi1">>
type_shipping == <<"c_fa", "c_huo", "c_tong1", "c_zhi1">>
type_system == <<"c_xi4", "c_tong3", "c_tong1", "c_zhi1">>
reply_shipping == <<"r_shipping_template">>
reply_system == <<"r_system_template">>

\* ------------------------------------------------------------------------
\* Program constants (times in milliseconds)
\* ------------------------------------------------------------------------

MsPerSec == 1000
processed_window == 30 * MsPerSec        \* self.processed_window = 30
min_age == 1                             \* time_diff > 0.001
system_notice_window == 60 * MsPerSec    \* self.system_notice_window = 60
near_realtime_window == 10 * MsPerSec    \* time_diff < 10
extended_expiry == 7200 * MsPerSec       \* expiry_time = 7200
duplication_window == 20 * MsPerSec      \* self.duplication_window = 20
fingerprint_sweep_period == 120 * MsPerSec
notice_sweep_period == 300 * MsPerSec
max_history == 100
NumWorkers == 3
Workers == 1..NumWorkers
SessionTask == 0     \* the thread of the event loop: run(), connect(), the read loop

\* ------------------------------------------------------------------------
\* Bounds and inputs
\* ------------------------------------------------------------------------

MaxBurst == 3        \* inbound frames per behaviour, dedup runs
MaxNotices == 2      \* inbound frames per behaviour, notice runs
MaxInbound == 2      \* inbound frames per behaviour, thread runs
MaxTicks == 1        \* clock advances per behaviour
MaxUnits == 2        \* inbound frames per behaviour, runs with faults
MaxBargains == 2     \* increments per conversation, store runs
MaxTextLen == 2      \* characters of a reply text, envelope runs
MaxIngress == 3      \* inbound frames per behaviour, ingress runs
MaxGuarded == 3      \* inbound frames per behaviour, guard runs
MaxEchoes == 2       \* inbound frames per behaviour, runs with own messages
MaxShared == 2       \* inbound frames per behaviour, runs with two users
MaxWireFrames == 2   \* inbound frames per behaviour, runs with sends as steps
IngressSeconds == 2  \* seconds of session time, ingress runs
StartTime == 100000  \* time.time() when the object is constructed

NoId == <<>>
NoText == <<>>
myid == "me"
unknown_item == "unknown_item"
bot_user_key == "user_d41d8cd9"

txt_price == <<"c_duo", "c_shao", "c_qian">>
txt_hello == <<"c_ni", "c_hao">>
txt_shipped == <<"c_ni", "c_yi3", "c_fa", "c_huo">>
id_m1 == <<"m1", ".PNM">>
id_m2 == <<"m2">>
id_m3 == <<"m3", ".PNM">>
id_m4 == <<"m4", ".PNM">>

\* A decrypted chat body (message["1"]["10"] present): the fields the code reads.
ChatBody(sender, text, item, id3, task, url) ==
    [kind |-> "chat", sender |-> sender, text |-> text, bizItem |-> item,
     id3 |-> id3, taskName |-> task, orderUrl |-> url, cid |-> "c1",
     top |-> <<>>, red |-> NoText, typing |-> "none"]

\* A top-level field of a decrypted body: its key, the Python type of its
\* value ("str", "list", "dict" or "num") and, for a string, the string, for a
\* list or dict, the string items it holds, in order.
Field(key, t, v) == [key |-> key, t |-> t, v |-> v]

\* A decrypted body that is neither typing nor chat; top is the sequence of
\* its top-level fields, in dict order.
OtherBody(top) ==
    [kind |-> "other", sender |-> "", text |-> NoText, bizItem |-> "",
     id3 |-> NoId, taskName |-> NoText, orderUrl |-> FALSE, cid |-> "",
     top |-> top, red |-> NoText, typing |-> "none"]

\* The same body with message["3"]["redReminder"] = red and with a typing
\* shape: "status" is message["1"]["4"] == 2 in a dict, "list" is a list
\* message["1"] whose first item names a "...@goofish" peer.
Shaped(body, red, typing) == [body EXCEPT !.red = red, !.typing = typing]

\* Lines 537-547: the phrases of an order message.
red_wait_payment == <<"c_deng", "c_dai", "c_mai3", "c_jia", "c_fu", "c_kuan">>
red_closed == <<"c_jiao", "c_yi4", "c_guan", "c_bi">>
red_wait_shipping == <<"c_deng", "c_dai", "c_mai4", "c_jia", "c_fa", "c_huo">>
order_reminders == {red_wait_payment, red_closed, red_wait_shipping}

\* One entry of syncPushPackage.data[0].msgs.
LiveMsg(uuid, from, text, item) ==
    [uuid |-> uuid, fromId |-> from, text |-> text, itemId |-> item, cid |-> "c1"]

\* An inbound push frame: how data[0].data decodes, the decoded body, and msgs.
\* The path is "plain" (base64, UTF-8, JSON), "decrypt" (packed), "junk"
\* (neither; printable holds the printable ASCII characters of its bytes),
\* "nonsync" (the frame has no push package) or "garbage" (the frame itself
\* is no JSON).
Frame(path, body, msgs) ==
    [path |-> path, body |-> body, msgs |-> msgs, printable |-> NoText]
JunkFrame(printable) ==
    [Frame("junk", OtherBody(<<>>), <<>>) EXCEPT !.printable = printable]

frame_price ==
    Frame("decrypt", ChatBody("u1", txt_price, "i1", id_m1, NoText, FALSE), <<>>)
frame_shipped_1 ==
    Frame("decrypt", ChatBody("u1", txt_shipped, "i1", NoId, NoText, FALSE), <<>>)
frame_shipped_2 ==
    Frame("decrypt", ChatBody("u1", txt_shipped, "i2", NoId, NoText, FALSE), <<>>)
frame_hello ==
    Frame("decrypt", ChatBody("u2", txt_hello, "", id_m2, NoText, FALSE), <<>>)
frame_other ==
    Frame("decrypt", OtherBody(<<Field("1", "list", <<id_m2>>),
                                 Field("2", "num", NoId),
                                 Field("3", "dict", <<id_m2, id_m3>>)>>), <<>>)
frame_live ==
    Frame("plain", OtherBody(<<>>), <<LiveMsg(id_m4, "u2", txt_hello, "i1")>>)
frame_garbage ==
    Frame("garbage", OtherBody(<<>>), <<>>)
frame_plain_price ==
    Frame("plain", ChatBody("u1", txt_price, "i1", id_m1, NoText, FALSE), <<>>)
frame_order ==
    Frame("decrypt", Shaped(OtherBody(<<Field("1", "str", <<"u1", "@goofish">>)>>),
                            red_wait_payment, "none"), <<>>)
frame_order_chat ==
    Frame("decrypt", Shaped(ChatBody("u2", txt_hello, "i1", NoId, NoText, FALSE),
                            red_closed, "none"), <<>>)
frame_typing_chat ==
    Frame("decrypt", Shaped(ChatBody("u2", txt_shipped, "i2", id_m3, NoText, FALSE),
                            NoText, "status"), <<>>)
frame_junk == JunkFrame(<<"m5", ".PNM">>)
frame_junk_blank == JunkFrame(NoText)
frame_new_u1_i1 ==
    Frame("decrypt", ChatBody("u1", txt_new_message, "i1", NoId, NoText, FALSE), <<>>)
frame_new_u2_i1 ==
    Frame("decrypt", ChatBody("u2", txt_new_message, "i1", NoId, NoText, FALSE), <<>>)
frame_new_u1_i2 ==
    Frame("decrypt", ChatBody("u1", txt_new_message, "i2", NoId, NoText, FALSE), <<>>)
frame_hello_u1 ==
    Frame("decrypt", ChatBody("u1", txt_hello, "i1", id_m1, NoText, FALSE), <<>>)
frame_nonsync ==
    Frame("nonsync", OtherBody(<<>>), <<LiveMsg(id_m4, "u2", txt_hello, "i1")>>)
frame_own_chat ==
    Frame("decrypt", ChatBody(myid, txt_hello, "i1", id_m1, NoText, FALSE), <<>>)
frame_own_live ==
    Frame("plain", OtherBody(<<>>), <<LiveMsg(id_m4, myid, txt_hello, "i1")>>)

\* The frames and clock steps of the three families of runs.
DedupFrames == {frame_price}
DedupSteps == {1, 5 * MsPerSec, processed_window, notice_sweep_period}
NoticeFrames == {frame_shipped_1, frame_shipped_2}
NoticeSteps == {2 * system_notice_window, notice_sweep_period}
ThreadFrames == {frame_price, frame_hello, frame_other, frame_live, frame_garbage}
ThreadSteps == {notice_sweep_period}
UnitFrames == {frame_price, frame_shipped_1, frame_hello}
FaultFrames == {frame_garbage, frame_price, frame_hello}
IngressFrames == {frame_price, frame_plain_price, frame_order, frame_order_chat,
                  frame_typing_chat, frame_other, frame_junk, frame_junk_blank}
GuardFrames == {frame_new_u1_i1, frame_new_u2_i1, frame_new_u1_i2}
GuardSteps == {MsPerSec, near_realtime_window}
WireFrames == {frame_price, frame_hello}
SharedFrames == {frame_hello, frame_hello_u1, frame_price}
EchoFrames == {frame_own_chat, frame_own_live, frame_hello}
HandlerFrames == {frame_price, frame_plain_price, frame_live, frame_nonsync,
                  frame_order, frame_typing_chat, frame_other}

LLMReplies == { <<"r_plain">>, <<"r_offer", "c_yuan">> }
default_reply == <<"r_default">>
llm_busy_reply == <<"r_busy">>
reply_safety == <<"r_safety">>
txt_wechat == <<"c_wei1", "c_xin">>

\* XianyuReplyBot.__init__, the phrases safety_filter blocks.
blocked_phrases ==
    << txt_wechat, <<"Q", "Q">>, <<"c_zhi", "c_fu", "c_bao">>,
       <<"c_yin", "c_hang", "c_ka">>, <<"c_xian", "c_xia">> >>

\* What the language model does with a request: it says a text, its client
\* raises, or the executor or the filter raises.
Said(text) == [kind |-> "said", text |-> text]
llm_raises == [kind |-> "llm_raises", text |-> NoText]
filter_raises == [kind |-> "filter_raises", text |-> NoText]

PlainGenerations == {Said(text) : text \in LLMReplies}
FaultyGenerations ==
    {Said(<<"r_plain">>), Said(<<"r_add">> \o txt_wechat), llm_raises, filter_raises}

\* ------------------------------------------------------------------------
\* State
\* ------------------------------------------------------------------------

VARIABLES
    now,                       \* time.time(), ms
    ticks,                     \* clock advances so far
    nframes,                   \* inbound frames so far
    processed_messages,        \* self.processed_messages: fingerprint -> time
    message_queue,             \* self.message_queue
    recent_responses,          \* self.recent_responses: user -> type -> record
    last_system_notification,  \* self._last_system_notification
    latest_message_id,         \* self.latest_message_id (NoId is None)
    found_pnm_id_flag,         \* self.found_pnm_id_flag
    history,                   \* messages table: <<user, item>> -> turns
    bargain_counts,            \* bargain_counts table: <<user, item>> -> count
    last_intent,               \* bot.last_intent
    last_messages,             \* bot.last_messages: key -> record
    pc,                        \* where each worker thread is
    cur,                       \* the locals of each worker thread
    fp_cleaner,                \* _clean_message_fingerprints_worker
    notice_cleaner,            \* _clean_system_notice_cache_worker
    inLog,                     \* history: events seen by the two ingress paths
    genLog,                    \* history: calls of bot.generate_reply
    dropLog,                   \* history: units a worker skipped, and why
    wire,                      \* history: reply frames sent by workers
    session_pc,                \* where run() and connect() stand
    ws_open,                   \* the websocket of connect() is open
    heartbeat_task,            \* "none", "running", "ended" or "cancelled"
    hb_wake,                   \* when heartbeat_loop's sleep ends
    last_heartbeat_time,
    last_heartbeat_response,
    token_failure_count,       \* local of connect()
    consecutive_failures,      \* local of run()
    delay,                     \* local of run(), in seconds
    wake,                      \* when the sleep of connect() or run() ends
    attempts,                  \* history: calls of connect()
    streak,                    \* history: calls of connect() in a row that failed
    sent,                      \* history: frames the session wrote to the socket
    logins,                    \* history: the calls of _handle_token_failure
    last_fetch,                \* history: what get_token met in this call of connect()
    token_run,                 \* history: calls of connect() in a row whose token fetch failed
    call,                      \* history: the last call made of a collaborator on its own
    writing                    \* the threads that are inside a send on the websocket

dvars == <<now, ticks, nframes, processed_messages, message_queue,
           recent_responses, last_system_notification, latest_message_id,
           found_pnm_id_flag, history, bargain_counts, last_intent,
           last_messages, pc, cur, fp_cleaner, notice_cleaner,
           inLog, genLog, dropLog, wire>>

svars == <<session_pc, ws_open, heartbeat_task, hb_wake, last_heartbeat_time,
           last_heartbeat_response, token_failure_count, consecutive_failures,
           delay, wake, attempts, streak, sent, logins, last_fetch, token_run>>

vars == <<dvars, svars, call, writing>>

\* No collaborator has been called on its own yet.
NoCall == [op |-> "none"]

\* Python dict helpers.
Has(m, k) == k \in DOMAIN m
Put(m, k, v) == (k :> v) @@ m
Del(m, ks) == [k \in (DOMAIN m) \ ks |-> m[k]]
Get(m, k, default) == IF Has(m, k) THEN m[k] ELSE default
EmptyMap == <<>>

NoTask ==
    [ev |-> <<0, 0>>, has1 |-> FALSE, id3 |-> NoId, taskName |-> NoText,
     orderUrl |-> FALSE, send_user_id |-> "", send_message |-> NoText,
     item_id |-> "", cid |-> "", message_id |-> NoId, fingerprint |-> NoText,
     t_in |-> 0]

NoLocals ==
    [task |-> NoTask, current_time |-> 0, time_diff |-> 0,
     is_system_notice |-> FALSE, is_shipping_notice |-> FALSE,
     bot_reply |-> NoText, reply_to |-> NoId, rule |-> "none", seen |-> NoId,
     steps |-> <<>>, own_intent |-> "none", incremented |-> FALSE]

\* XianyuWebSocket.__init__, lines 60-66, and the locals before the first use.
SessionStart ==
    /\ session_pc = "run"
    /\ ws_open = FALSE
    /\ heartbeat_task = "none"
    /\ hb_wake = 0
    /\ last_heartbeat_time = 0
    /\ last_heartbeat_response = 0
    /\ token_failure_count = 0
    /\ consecutive_failures = 0
    /\ delay = 0
    /\ wake = 0
    /\ attempts = 0
    /\ streak = 0
    /\ sent = <<>>
    /\ logins = <<>>
    /\ last_fetch = "none"
    /\ token_run = 0

Init ==
    /\ SessionStart
    /\ call = NoCall
    /\ writing = {}
    /\ now = StartTime
    /\ ticks = 0
    /\ nframes = 0
    /\ processed_messages = EmptyMap
    /\ message_queue = <<>>
    /\ recent_responses = EmptyMap
    /\ last_system_notification = [key |-> <<>>, time |-> 0]
    /\ latest_message_id = NoId
    /\ found_pnm_id_flag = FALSE
    /\ history = EmptyMap
    /\ bargain_counts = EmptyMap
    /\ last_intent = "default"
    /\ last_messages = EmptyMap
    /\ pc = [w \in Workers |-> "idle"]
    /\ cur = [w \in Workers |-> NoLocals]
    /\ fp_cleaner = [pc |-> "sleep", wake |-> StartTime + fingerprint_sweep_period,
                     expired |-> {}]
    /\ notice_cleaner = [pc |-> "sleep", wake |-> StartTime + notice_sweep_period,
                         users |-> {}, notices |-> {}]
    /\ inLog = {}
    /\ genLog = {}
    /\ dropLog = {}
    /\ wire = <<>>

\* ------------------------------------------------------------------------
\* The read loop: handle_message and handle_live_message
\* ------------------------------------------------------------------------

\* hashlib.md5(f"{send_user_id}:{send_message}:{item_id}") : the hashed string.
Fingerprint(user, text, item) == <<user, ":">> \o text \o <<":", item>>

\* extract_message_id_from_non_chat: the marker-bearing strings of one field.
FieldIds(f) ==
    IF f.t = "str" THEN (IF HasPNM(f.v) THEN <<f.v>> ELSE <<>>)
    ELSE IF f.t \in {"list", "dict"} THEN SelectSeq(f.v, HasPNM)
    ELSE <<>>

RECURSIVE AllFieldIds(_)
AllFieldIds(fields) ==
    IF fields = <<>> THEN <<>>
    ELSE FieldIds(Head(fields)) \o AllFieldIds(Tail(fields))

\* Steps 1 and 2 look at message["1"] only, and not at a dict there.
Field1Ids(fields) ==
    LET ones == SelectSeq(fields, LAMBDA f : f.key = "1" /\ f.t \in {"str", "list"})
    IN  IF ones = <<>> THEN <<>> ELSE FieldIds(Head(ones))

\* An extraction that takes the first string of the body, marker or not.
extract_message_id_from_non_chat_AnyString(fields) ==
    LET strs == SelectSeq(fields, LAMBDA f : f.t = "str")
        lists == SelectSeq(fields, LAMBDA f : f.t \in {"list", "dict"} /\ f.v # <<>>)
    IN  IF strs # <<>> THEN Head(strs).v
        ELSE IF lists # <<>> THEN Head(Head(lists).v)
        ELSE NoId

extract_message_id_from_non_chat(fields) ==
    LET pnm_ids == Field1Ids(fields) \o AllFieldIds(fields)
    IN  IF pnm_ids = <<>> THEN NoId ELSE Head(pnm_ids)

\* decrypt (xianyu_utils.py lines 331-424) and json.loads, lines 514-516: a
\* packed payload gives its body; for any other payload _py_decrypt returns
\* the JSON text of a dict of its own, {"extractedText": ...} with the
\* printable characters of the bytes, or {"success": false, "message": ...,
\* "base64Length": ...} when there are none.  It raises nothing.
txt_cannot_decode == <<"c_wu", "c_fa", "c_jie", "c_ma">>
decrypt(f) ==
    IF f.path # "junk" THEN f.body
    ELSE IF f.printable # NoText
    THEN OtherBody(<<Field("extractedText", "str", f.printable)>>)
    ELSE OtherBody(<<Field("success", "bool", NoId),
                     Field("message", "str", txt_cannot_decode),
                     Field("base64Length", "num", NoId)>>)

\* Lines 533-552: the order branch returns when the phrase is one of the
\* three and message['1'].split works, that is, message['1'] is a string;
\* anything it raises is passed over and the code goes on.
OneIsStr(body) ==
    body.kind # "chat" /\ \E i \in DOMAIN body.top :
                             body.top[i].key = "1" /\ body.top[i].t = "str"
OrderReturns(body) == body.red \in order_reminders /\ OneIsStr(body)

\* is_typing_status (lines 354-384) and is_chat_message (lines 310-331).
is_typing_status(body) == body.typing # "none"
is_chat_message(body) == body.kind = "chat"

\* Lines 533-560: what handle_message takes a decrypted body for.
Classify(body) ==
    IF OrderReturns(body) THEN "order"
    ELSE IF is_typing_status(body) THEN "typing"
    ELSE IF is_chat_message(body) THEN "chat"
    ELSE "other"

\* The shapes of a body: a reminder field with one of the order phrases.
OrderShape(body) == body.red \in order_reminders

\* Lines 601-607: the id of a chat body, kept only when it bears the marker.
ChatMessageId(body) == IF HasPNM(body.id3) THEN body.id3 ELSE NoId

\* Lines 613-628: the item id, "unknown_item" without a usable bizTag.
ChatItemId(body) == IF body.bizItem = "" THEN unknown_item ELSE body.bizItem

\* What handle_message did for a frame besides classifying it, in order:
\* the acknowledgement of lines 457-474 and the call of the injected
\* message handler.
ack_only == <<"ack">>
ack_then_handler == <<"ack", "handler">>

\* An entry of the ingress log for a frame: what was done with it (path),
\* how its payload decoded, the shapes its body matches, and the calls made
\* for it.
InEntry(ev, path, decode, body, enq, t, did) ==
    [ev |-> ev, path |-> path, user |-> body.sender, text |-> body.text,
     item |-> IF is_chat_message(body) THEN ChatItemId(body) ELSE "",
     t |-> t, enq |-> enq, decode |-> decode,
     order_shape |-> OrderShape(body), typing_shape |-> is_typing_status(body),
     chat_shape |-> is_chat_message(body), did |-> did]

\* Lines 641-647: the ingress check of handle_message.
IngressDuplicate(pm, fp, t) ==
    Has(pm, fp) /\ t - pm[fp] < processed_window

\* Lines 654-664: the task handle_message builds.
ChatTask(body, ev, t) ==
    [ev |-> ev, has1 |-> TRUE, id3 |-> body.id3, taskName |-> body.taskName,
     orderUrl |-> body.orderUrl, send_user_id |-> body.sender,
     send_message |-> body.text, item_id |-> ChatItemId(body),
     cid |-> body.cid, message_id |-> ChatMessageId(body),
     fingerprint |-> Fingerprint(body.sender, body.text, ChatItemId(body)),
     t_in |-> t]

\* Lines 1553-1562: the task handle_live_message builds for one msgs entry.
LiveTask(msg, ev, t) ==
    [ev |-> ev, has1 |-> FALSE, id3 |-> NoId, taskName |-> NoText,
     orderUrl |-> FALSE, send_user_id |-> msg.fromId,
     send_message |-> msg.text, item_id |-> msg.itemId,
     cid |-> msg.cid, message_id |-> IF HasPNM(msg.uuid) THEN msg.uuid ELSE NoId,
     fingerprint |-> NoText, t_in |-> t]

\* Lines 1528 and 1549: a msgs entry is enqueued unless it is the session's
\* own message or its text is empty.
LiveEnqueues(msg) == msg.fromId # myid /\ msg.text # NoText

\* handle_live_message, lines 1501-1568, over msgs[k..]: the session id, the
\* queue and the ingress log after the loop.
RECURSIVE LiveLoop(_, _, _, _)
LiveLoop(msgs, k, n, st) ==
    IF k > Len(msgs) THEN st
    ELSE LET msg == msgs[k]
             task == LiveTask(msg, <<n, k>>, now)
             entry == [ev |-> <<n, k>>, path |-> "live", user |-> msg.fromId,
                       text |-> msg.text, item |-> msg.itemId, t |-> now,
                       enq |-> LiveEnqueues(msg), decode |-> "live",
                       order_shape |-> FALSE, typing_shape |-> FALSE,
                       chat_shape |-> FALSE, did |-> <<>>]
         IN  LiveLoop(msgs, k + 1, n,
                 [latest |-> IF HasPNM(msg.uuid) THEN msg.uuid ELSE st.latest,
                  flag |-> st.flag \/ HasPNM(msg.uuid),
                  queue |-> IF LiveEnqueues(msg) THEN Append(st.queue, task)
                            ELSE st.queue,
                  log |-> st.log \cup {entry}])

\* handle_message for one push frame (lines 477-674), with the call of the
\* message handler, handle_live_message, it ends in.
HandleMessage(f) ==
    /\ nframes' = nframes + 1
    /\ LET n == nframes + 1
           body == decrypt(f)
           kind == Classify(body)
           decoded == f.path \in {"decrypt", "junk"}
           Seen(path, enq, did) ==
               InEntry(<<n, 0>>, path, f.path, body, enq, now, did)
           returned == ack_only
           handled == ack_then_handler
           st0 == [latest |-> latest_message_id, flag |-> found_pnm_id_flag,
                   queue |-> message_queue, log |-> inLog]
       IN
       CASE f.path = "plain" ->
              \* lines 495-509: no decryption, the body is logged and the
              \* handler sees the frame
              LET st == LiveLoop(f.msgs, 1, n,
                                 [st0 EXCEPT !.log = inLog \cup
                                                     {Seen("plain", FALSE, handled)}])
              IN  /\ latest_message_id' = st.latest
                  /\ found_pnm_id_flag' = st.flag
                  /\ message_queue' = st.queue
                  /\ inLog' = st.log
                  /\ UNCHANGED processed_messages
         [] f.path = "nonsync" ->
              \* lines 476-481: no push package; the handler is called and
              \* finds nothing to do (handle_live_message, line 1488)
              /\ inLog' = inLog \cup {Seen("nonsync", FALSE, handled)}
              /\ UNCHANGED <<latest_message_id, found_pnm_id_flag, message_queue,
                             processed_messages>>
         [] decoded /\ kind \in {"order", "typing"} ->
              \* lines 533-558: logged, return
              /\ inLog' = inLog \cup {Seen(kind, FALSE, returned)}
              /\ UNCHANGED <<latest_message_id, found_pnm_id_flag, message_queue,
                             processed_messages>>
         [] decoded /\ kind = "other" ->
              \* lines 559-577
              LET id == extract_message_id_from_non_chat(body.top)
              IN  /\ latest_message_id' = IF id # NoId THEN id ELSE latest_message_id
                  /\ found_pnm_id_flag' = (found_pnm_id_flag \/ (id # NoId /\ HasPNM(id)))
                  /\ inLog' = inLog \cup {Seen("other", FALSE, returned)}
                  /\ UNCHANGED <<message_queue, processed_messages>>
         [] decoded /\ kind = "chat" ->
              \* lines 579-674
              LET mid == ChatMessageId(body)
                  task == ChatTask(body, <<n, 0>>, now)
                  dup == IngressDuplicate(processed_messages, task.fingerprint, now)
                  entry == Seen("chat", ~dup, IF dup THEN returned ELSE handled)
                  st1 == [latest |-> IF mid # NoId THEN mid ELSE latest_message_id,
                          flag |-> found_pnm_id_flag \/ (mid # NoId),
                          queue |-> IF dup THEN message_queue
                                    ELSE Append(message_queue, task),
                          log |-> inLog \cup {entry}]
                  \* a duplicate returns at line 647, before the handler call
                  st == IF dup THEN st1 ELSE LiveLoop(f.msgs, 1, n, st1)
              IN  /\ latest_message_id' = st.latest
                  /\ found_pnm_id_flag' = st.flag
                  /\ message_queue' = st.queue
                  /\ inLog' = st.log
                  /\ processed_messages' =
                        IF dup THEN processed_messages
                        ELSE Put(processed_messages, task.fingerprint, now)
         [] OTHER ->
              \* connect() lines 834 and 843-844: the frame is no JSON; the
              \* read loop logs it and takes the next frame
              /\ inLog' = inLog \cup {Seen("garbage", FALSE, <<>>)}
              /\ UNCHANGED <<latest_message_id, found_pnm_id_flag, message_queue,
                             processed_messages>>
    /\ UNCHANGED <<svars, call>>
    /\ writing' = writing \ {SessionTask}  \* the acknowledgement is written
    /\ UNCHANGED <<now, ticks, recent_responses, last_system_notification,
                   history, bargain_counts, last_intent, last_messages, pc, cur,
                   fp_cleaner, notice_cleaner, genLog, dropLog, wire>>

\* The clock.
Tick(d) ==
    /\ ticks' = ticks + 1
    /\ now' = now + d
    /\ UNCHANGED <<svars, call, writing>>
    /\ UNCHANGED <<nframes, processed_messages, message_queue, recent_responses,
                   last_system_notification, latest_message_id, found_pnm_id_flag,
                   history, bargain_counts, last_intent, last_messages, pc, cur,
                   fp_cleaner, notice_cleaner, inLog, genLog, dropLog, wire>>

\* ------------------------------------------------------------------------
\* The collaborators: ChatContextManager and XianyuReplyBot
\* ------------------------------------------------------------------------

\* A history store that keeps nothing.
add_message_Unsaved(h, key, role, content) == h

\* add_message: the insert, then the trim.  The trim keeps the row at offset
\* max_history of the newest-first order and every row after it.
add_message(h, key, role, content) ==
    LET rows == Append(Get(h, key, <<>>), [role |-> role, content |-> content])
        kept == IF Len(rows) > max_history + 1
                THEN SubSeq(rows, Len(rows) - max_history, Len(rows))
                ELSE rows
    IN  Put(h, key, kept)

\* An upsert that replaces the table by the one row.
increment_bargain_count_Alone(b, key) == (key :> Get(b, key, 0) + 1)

\* increment_bargain_count: the upsert.
increment_bargain_count(b, key) == Put(b, key, Get(b, key, 0) + 1)

\* get_bargain_count: the count of the row, 0 without one.
get_bargain_count(b, key) == Get(b, key, 0)

\* get_context, lines 198-206: the rows the query selects, as positions in
\* the conversation's stored rows: ORDER BY timestamp ASC LIMIT max_history
\* takes the first max_history of them.
ContextRows(h, key) ==
    LET n == Len(Get(h, key, <<>>))
    IN  1 .. (IF n > max_history THEN max_history ELSE n)

\* get_context: the first max_history rows in ascending order, and a system
\* message with the bargain count when there is one.
get_context(h, b, key) ==
    LET rows == Get(h, key, <<>>)
        messages == [i \in ContextRows(h, key) |-> rows[i]]
        bargain_count == get_bargain_count(b, key)
    IN  IF bargain_count > 0
        THEN Append(messages, [role |-> "system", content |-> <<"bargain", bargain_count>>])
        ELSE messages

\* generate_reply decides the intent from the message and the reply.
ReplyIntent(user_msg, reply) ==
    IF AnyIn(price_keywords, user_msg) \/ AnyIn(price_keywords, reply)
    THEN "price" ELSE "default"

\* XianyuReplyBot.__init__, safety_filter.
safety_filter(text) == IF AnyIn(blocked_phrases, text) THEN reply_safety ELSE text

\* generate_reply, lines 326-345: _execute_llm_call turns an error of the
\* client into the busy reply, which is filtered like any text; an error of
\* the executor or of the filter gives the default reply.
GeneratedReply(o) ==
    CASE o.kind = "llm_raises" -> safety_filter(llm_busy_reply)
      [] o.kind = "filter_raises" -> default_reply
      [] OTHER -> safety_filter(o.text)

\* An error of the generation that is let out of generate_reply as it is.
Escapes_Uncaught(o) == o.kind # "said"

\* generate_reply, lines 334 and 343: both try blocks catch Exception, so no
\* error of the generation leaves generate_reply.
Escapes(o) == FALSE

\* generate_reply, lines 294-301: the stored reply is reused for the same
\* text within duplication_window.  The worker passes the context as a list,
\* so every call runs under the one key the empty context hashes to.
ReplyCached(lm, user_msg, t) ==
    /\ Has(lm, bot_user_key)
    /\ lm[bot_user_key].msg = user_msg
    /\ t - lm[bot_user_key].time < duplication_window

\* ------------------------------------------------------------------------
\* The worker threads: _message_worker
\* ------------------------------------------------------------------------

\* Lines 1168-1174: the worker-side re-check of the fingerprint.
WorkerDuplicate(pm, fp, t) ==
    LET last_processed_time == Get(pm, fp, 0)
        time_diff == t - last_processed_time
    IN  /\ last_processed_time > 0
        /\ time_diff < processed_window
        /\ time_diff > min_age

\* Lines 1233-1292: is_system_notice and is_shipping_notice.
TaskNameNotice(task) ==
    task.has1 /\ task.taskName # NoText /\ AnyIn(task_keywords, task.taskName)

IsShippingNotice(task) ==
    \/ TaskNameNotice(task) /\ Contains(kw_fahuo, task.taskName)
    \/ AnyIn(shipping_keywords, task.send_message)
    \/ task.send_message = txt_new_message /\ task.has1 /\ task.orderUrl

IsSystemNotice(task) ==
    \/ AnyIn(system_notices, task.send_message)
    \/ TaskNameNotice(task)
    \/ AnyIn(shipping_keywords, task.send_message)
    \/ task.send_message = txt_new_message

\* Lines 1300-1310 and 1398-1408: the notice subtype.
MessageType(task) ==
    LET hit == FirstIn(system_notices, task.send_message)
    IN  IF hit # <<>> THEN hit
        ELSE IF IsShippingNotice(task) THEN type_shipping ELSE type_system

\* Line 1314.
UniqueKey(task) == <<task.send_user_id, "_">> \o MessageType(task)

\* Lines 1313-1325: the near-real-time guard.
GuardSuppresses(ln, task, t) ==
    /\ task.send_message = txt_new_message
    /\ ln.key = UniqueKey(task)
    /\ t - ln.time < near_realtime_window

\* Lines 1337-1346: the system-notice window.
WindowSuppresses(rr, task, t) ==
    /\ Has(rr, task.send_user_id)
    /\ Has(rr[task.send_user_id], MessageType(task))
    /\ t - rr[task.send_user_id][MessageType(task)].timestamp < system_notice_window

\* Rule 1 without the test for the marker.
RawThreadId_AnyId(task) == IF task.has1 THEN task.id3 ELSE NoId

\* Lines 1431-1435: rule 1, the id on the raw message.
RawThreadId(task) == IF task.has1 /\ HasPNM(task.id3) THEN task.id3 ELSE NoId

\* Lines 1446-1448: rule 3, the id handed over with the task.
TaskThreadId(task) == IF HasPNM(task.message_id) THEN task.message_id ELSE NoId

\* The rules with the session id tried before the raw message's id.
ChosenRule_SessionFirst(task, latest) ==
    IF latest # NoId /\ HasPNM(latest) THEN "session"
    ELSE IF RawThreadId(task) # NoId THEN "raw"
    ELSE IF TaskThreadId(task) # NoId THEN "task"
    ELSE "none"

\* Lines 1431-1448: which rule supplies the reference, given the session id
\* the tests at lines 1438-1439 read.
ChosenRule(task, latest) ==
    IF RawThreadId(task) # NoId THEN "raw"
    ELSE IF latest # NoId /\ HasPNM(latest) THEN "session"
    ELSE IF TaskThreadId(task) # NoId THEN "task"
    ELSE "none"

Conv(task) == <<task.send_user_id, task.item_id>>

Drop(w, layer) ==
    [ev |-> cur[w].task.ev, layer |-> layer, t |-> now, t_in |-> cur[w].task.t_in,
     w |-> w, nsent |-> Len(wire), own_intent |-> cur[w].own_intent,
     incremented |-> cur[w].incremented]

\* A thread that an error ends.
AfterError_Dies == "dead"

\* Lines 1469-1474: the handler logs the error, the queue is told the task is
\* done and the loop turns.
AfterError == "idle"

\* A failed unit put back on the queue.
AfterFailedSend_Retry(queue, task) == Append(queue, task)

\* Lines 1469-1474 leave the queue as it is.
AfterFailedSend(queue, task) == queue

\* A thread that takes from the queue wherever it stands.
Idle_Anywhere(w) == TRUE

\* Line 1144: the thread is at the top of its loop.
Idle(w) == pc[w] = "idle"

\* Lines 1144-1179: take the head of the queue and re-check its fingerprint.
\* The threads run the same code and nothing records which of them holds a
\* unit, so of the idle threads the lowest-numbered one is the one woken.
WorkerTake(w) ==
    /\ Idle(w)
    /\ \A v \in Workers : v < w => pc[v] # "idle"
    /\ message_queue # <<>>
    /\ LET task == Head(message_queue)
           time_diff == now - Get(processed_messages, task.fingerprint, 0)
           locals == [NoLocals EXCEPT !.task = task, !.current_time = now,
                                      !.time_diff = time_diff]
       IN  /\ message_queue' = Tail(message_queue)
           /\ IF task.fingerprint = NoText
              THEN /\ pc' = [pc EXCEPT ![w] = "notice"]
                   /\ cur' = [cur EXCEPT ![w] = locals]
                   /\ UNCHANGED dropLog
              ELSE IF WorkerDuplicate(processed_messages, task.fingerprint, now)
              THEN /\ pc' = [pc EXCEPT ![w] = "idle"]
                   /\ cur' = [cur EXCEPT ![w] = NoLocals]
                   /\ dropLog' = dropLog \cup
                         {[ev |-> task.ev, layer |-> "fingerprint", t |-> now,
                           t_in |-> task.t_in, w |-> w, nsent |-> Len(wire),
                           own_intent |-> "none", incremented |-> FALSE]}
              ELSE /\ pc' = [pc EXCEPT ![w] = "stamp"]
                   /\ cur' = [cur EXCEPT ![w] = locals]
                   /\ UNCHANGED dropLog
    /\ UNCHANGED <<svars, call, writing>>
    /\ UNCHANGED <<now, ticks, nframes, processed_messages, recent_responses,
                   last_system_notification, latest_message_id, found_pnm_id_flag,
                   history, bargain_counts, last_intent, last_messages,
                   fp_cleaner, notice_cleaner, inLog, genLog, wire>>

\* Lines 1182-1184: stamp the record when it is missing or was out of date.
WorkerStamp(w) ==
    /\ pc[w] = "stamp"
    /\ LET fp == cur[w].task.fingerprint
       IN  processed_messages' =
              IF ~Has(processed_messages, fp) \/ cur[w].time_diff > processed_window
              THEN Put(processed_messages, fp, cur[w].current_time)
              ELSE processed_messages
    /\ pc' = [pc EXCEPT ![w] = "notice"]
    /\ cur' = [cur EXCEPT ![w].time_diff = 0]
    /\ UNCHANGED <<svars, call, writing>>
    /\ UNCHANGED <<now, ticks, nframes, message_queue, recent_responses,
                   last_system_notification, latest_message_id, found_pnm_id_flag,
                   history, bargain_counts, last_intent, last_messages,
                   fp_cleaner, notice_cleaner, inLog, genLog, dropLog, wire>>

\* A suppressed notice that is logged and handled all the same.
AfterNoticeChecks_GoesOn(suppressed) == "context"

\* Lines 1322-1324 and 1349-1352: a suppressed notice ends the unit
\* (task_done, continue); any other unit goes on to the history write.
AfterNoticeChecks(suppressed) == IF suppressed THEN "idle" ELSE "context"

\* Lines 1229-1358: classify the unit and run the two system-notice checks.
WorkerNotice(w) ==
    /\ pc[w] = "notice"
    /\ LET task == cur[w].task
           user == task.send_user_id
           sys == IsSystemNotice(task)
           guarded == sys /\ GuardSuppresses(last_system_notification, task, now)
           windowed == sys /\ ~guarded /\ WindowSuppresses(recent_responses, task, now)
           next == AfterNoticeChecks(guarded \/ windowed)
       IN  /\ cur' = IF next = "idle"
                     THEN [cur EXCEPT ![w] = NoLocals]
                     ELSE [cur EXCEPT ![w].is_system_notice = sys,
                                      ![w].is_shipping_notice = IsShippingNotice(task)]
           /\ last_system_notification' =
                 IF sys /\ ~guarded /\ task.send_message = txt_new_message
                 THEN [key |-> UniqueKey(task), time |-> now]
                 ELSE last_system_notification
           /\ recent_responses' =
                 IF windowed
                 THEN [recent_responses EXCEPT ![user][MessageType(task)].count = @ + 1]
                 ELSE IF sys /\ ~guarded /\ ~Has(recent_responses, user)
                 THEN Put(recent_responses, user, EmptyMap)
                 ELSE recent_responses
           /\ pc' = [pc EXCEPT ![w] = next]
           /\ dropLog' = IF guarded THEN dropLog \cup {Drop(w, "guard")}
                         ELSE IF windowed THEN dropLog \cup {Drop(w, "window")}
                         ELSE dropLog
    /\ UNCHANGED <<svars, call, writing>>
    /\ UNCHANGED <<now, ticks, nframes, processed_messages, message_queue,
                   latest_message_id, found_pnm_id_flag, history, bargain_counts,
                   last_intent, last_messages, fp_cleaner, notice_cleaner,
                   inLog, genLog, wire>>

\* Lines 1360-1364: the user turn, then the context.
WorkerContext(w) ==
    /\ pc[w] = "context"
    /\ history' = add_message(history, Conv(cur[w].task), "user",
                              cur[w].task.send_message)
    /\ cur' = [cur EXCEPT ![w].steps = <<"user turn", "context">>]
    /\ pc' = [pc EXCEPT ![w] = "reply"]
    /\ UNCHANGED <<svars, call, writing>>
    /\ UNCHANGED <<now, ticks, nframes, processed_messages, message_queue,
                   recent_responses, last_system_notification, latest_message_id,
                   found_pnm_id_flag, bargain_counts, last_intent, last_messages,
                   fp_cleaner, notice_cleaner, inLog, genLog, dropLog, wire>>

\* Lines 1366-1381: a templated reply, or bot.generate_reply, whose
\* generation ends in one of the ways in generations.
Reply(w, generations) ==
    /\ pc[w] = "reply"
    /\ LET task == cur[w].task
           text == task.send_message
           Call(outcome) ==
               [ev |-> task.ev, user |-> task.send_user_id, text |-> text,
                item |-> task.item_id, fp |-> task.fingerprint,
                t_in |-> task.t_in, t |-> now, outcome |-> outcome]
           Chosen(reply, intent) ==
               /\ cur' = [cur EXCEPT ![w].bot_reply = reply,
                                     ![w].own_intent = intent,
                                     ![w].steps = Append(@, "reply")]
               /\ pc' = [pc EXCEPT ![w] = "record"]
               /\ UNCHANGED dropLog
       IN  IF cur[w].is_shipping_notice \/ cur[w].is_system_notice
           THEN /\ Chosen(IF cur[w].is_shipping_notice THEN reply_shipping
                          ELSE reply_system, "none")
                /\ UNCHANGED <<last_intent, last_messages, genLog>>
           ELSE IF text = NoText
           THEN /\ genLog' = genLog \cup {Call("empty")}
                /\ Chosen(default_reply, "none")
                /\ UNCHANGED <<last_intent, last_messages>>
           ELSE IF ReplyCached(last_messages, text, now)
           THEN /\ genLog' = genLog \cup {Call("reused")}
                /\ Chosen(last_messages[bot_user_key].reply, "none")
                /\ UNCHANGED <<last_intent, last_messages>>
           ELSE \E o \in generations :
                /\ genLog' = genLog \cup {Call(o.kind)}
                /\ IF Escapes(o)
                   THEN \* the handler at line 1469 ends the unit
                        /\ pc' = [pc EXCEPT ![w] = AfterError]
                        /\ cur' = [cur EXCEPT ![w] = NoLocals]
                        /\ dropLog' = dropLog \cup {Drop(w, "generation")}
                        /\ UNCHANGED <<last_intent, last_messages>>
                   ELSE LET reply == GeneratedReply(o)
                        IN  /\ Chosen(reply, ReplyIntent(text, reply))
                            /\ last_intent' = ReplyIntent(text, reply)
                            /\ last_messages' = Put(last_messages, bot_user_key,
                                  [msg |-> text, time |-> now, reply |-> reply])
    /\ UNCHANGED <<svars, call, writing>>
    /\ UNCHANGED <<now, ticks, nframes, processed_messages, message_queue,
                   recent_responses, last_system_notification, latest_message_id,
                   found_pnm_id_flag, history, bargain_counts,
                   fp_cleaner, notice_cleaner, inLog, wire>>

WorkerReply(w) == Reply(w, PlainGenerations)

\* Lines 1383-1421: the bargain count, the assistant turn, the notice record.
\* The write at line 1411 raises KeyError when the user's entry is gone; the
\* handler at line 1469 then ends the unit without a send.
WorkerRecord(w) ==
    /\ pc[w] = "record"
    /\ LET task == cur[w].task
           user == task.send_user_id
           lost == cur[w].is_system_notice /\ ~Has(recent_responses, user)
       IN  /\ bargain_counts' = IF last_intent = "price"
                                THEN increment_bargain_count(bargain_counts, Conv(task))
                                ELSE bargain_counts
           /\ history' = add_message(history, Conv(task), "assistant", cur[w].bot_reply)
           /\ recent_responses' =
                 IF cur[w].is_system_notice /\ ~lost
                 THEN [recent_responses EXCEPT ![user] =
                          Put(@, MessageType(task),
                              [timestamp |-> now, count |-> 1,
                               extended_window |-> cur[w].is_shipping_notice])]
                 ELSE recent_responses
           /\ pc' = [pc EXCEPT ![w] = IF lost THEN AfterError ELSE "resolve"]
           /\ cur' = IF lost THEN [cur EXCEPT ![w] = NoLocals]
                     ELSE [cur EXCEPT ![w].incremented = (last_intent = "price"),
                                      ![w].steps = Append(@, "assistant turn")]
           /\ dropLog' = IF lost
                         THEN dropLog \cup
                                 {[Drop(w, "error") EXCEPT
                                      !.incremented = (last_intent = "price")]}
                         ELSE dropLog
    /\ UNCHANGED <<svars, call, writing>>
    /\ UNCHANGED <<now, ticks, nframes, processed_messages, message_queue,
                   last_system_notification, latest_message_id, found_pnm_id_flag,
                   last_intent, last_messages, fp_cleaner, notice_cleaner,
                   inLog, genLog, wire>>

\* Lines 1423-1451: choose the thread reference.  Rule 2 reads the session id
\* here to test it and once more, in WorkerSend, to take it.
WorkerResolve(w) ==
    /\ pc[w] = "resolve"
    /\ LET task == cur[w].task
           rule == ChosenRule(task, latest_message_id)
       IN  cur' = [cur EXCEPT ![w].rule = rule,
                              ![w].seen = latest_message_id,
                              ![w].reply_to = IF rule = "raw" THEN RawThreadId(task)
                                              ELSE IF rule = "task" THEN TaskThreadId(task)
                                              ELSE NoId]
    /\ pc' = [pc EXCEPT ![w] = "send"]
    /\ UNCHANGED <<svars, call, writing>>
    /\ UNCHANGED <<now, ticks, nframes, processed_messages, message_queue,
                   recent_responses, last_system_notification, latest_message_id,
                   found_pnm_id_flag, history, bargain_counts, last_intent,
                   last_messages, fp_cleaner, notice_cleaner, inLog, genLog,
                   dropLog, wire>>

\* The turns of the unit are in the history of its conversation, the user
\* turn before the assistant turn.
InHistory(h, task, reply) ==
    \E i, j \in DOMAIN Get(h, Conv(task), <<>>) :
        /\ i < j
        /\ h[Conv(task)][i] = [role |-> "user", content |-> task.send_message]
        /\ h[Conv(task)][j] = [role |-> "assistant", content |-> reply]

\* Lines 1440 and 1460-1474: take the session id if rule 2 applied, and send.
\* The send goes out, or it raises and the handler at line 1469 ends the unit.
Send(w, results) ==
    /\ pc[w] = "send"
    /\ \E result \in results :
          LET task == cur[w].task
              reply_to == IF cur[w].rule = "session" THEN latest_message_id
                          ELSE cur[w].reply_to
              frame ==
                 [ev |-> task.ev, to |-> task.send_user_id, cid |-> task.cid,
                  text |-> cur[w].bot_reply, replyMessageId |-> reply_to,
                  raw |-> task.id3, has1 |-> task.has1, message_id |-> task.message_id,
                  seen |-> cur[w].seen, session |-> latest_message_id,
                  notice |-> cur[w].is_system_notice,
                  shipping |-> cur[w].is_shipping_notice,
                  type |-> IF cur[w].is_system_notice THEN MessageType(task) ELSE NoText,
                  t_take |-> cur[w].current_time, t |-> now,
                  w |-> w, steps |-> Append(cur[w].steps, "send"),
                  own_intent |-> cur[w].own_intent,
                  incremented |-> cur[w].incremented,
                  in_history |-> InHistory(history, task, cur[w].bot_reply)]
          IN  IF result = "sent"
              THEN /\ wire' = Append(wire, frame)
                   /\ pc' = [pc EXCEPT ![w] = "idle"]
                   /\ UNCHANGED <<message_queue, dropLog>>
              ELSE /\ dropLog' = dropLog \cup {Drop(w, "send")}
                   /\ message_queue' = AfterFailedSend(message_queue, task)
                   /\ pc' = [pc EXCEPT ![w] = AfterError]
                   /\ UNCHANGED wire
    /\ cur' = [cur EXCEPT ![w] = NoLocals]
    /\ UNCHANGED <<svars, call>>
    /\ writing' = writing \ {w}  \* ws.send is over
    /\ UNCHANGED <<now, ticks, nframes, processed_messages,
                   recent_responses, last_system_notification, latest_message_id,
                   found_pnm_id_flag, history, bargain_counts, last_intent,
                   last_messages, fp_cleaner, notice_cleaner, inLog, genLog>>

WorkerSend(w) == Send(w, {"sent"})

\* ------------------------------------------------------------------------
\* The cleaner threads
\* ------------------------------------------------------------------------

\* _clean_message_fingerprints_worker, lines 1595-1600: after the sleep,
\* collect the fingerprints older than three windows.
ExpiredFingerprints(pm, t) ==
    {fp \in DOMAIN pm : t - pm[fp] > processed_window * 3}

FingerprintScan ==
    /\ fp_cleaner.pc = "sleep"
    /\ now >= fp_cleaner.wake
    /\ fp_cleaner' = [fp_cleaner EXCEPT !.pc = "delete",
                         !.expired = ExpiredFingerprints(processed_messages, now)]
    /\ UNCHANGED <<svars, call, writing>>
    /\ UNCHANGED <<now, ticks, nframes, processed_messages, message_queue,
                   recent_responses, last_system_notification, latest_message_id,
                   found_pnm_id_flag, history, bargain_counts, last_intent,
                   last_messages, pc, cur, notice_cleaner, inLog, genLog,
                   dropLog, wire>>

\* Lines 1602-1604: delete what the scan collected, then sleep again.
FingerprintDelete ==
    /\ fp_cleaner.pc = "delete"
    /\ processed_messages' = Del(processed_messages, fp_cleaner.expired)
    /\ fp_cleaner' = [pc |-> "sleep", wake |-> now + fingerprint_sweep_period,
                      expired |-> {}]
    /\ UNCHANGED <<svars, call, writing>>
    /\ UNCHANGED <<now, ticks, nframes, message_queue, recent_responses,
                   last_system_notification, latest_message_id, found_pnm_id_flag,
                   history, bargain_counts, last_intent, last_messages, pc, cur,
                   notice_cleaner, inLog, genLog, dropLog, wire>>

\* _clean_system_notice_cache_worker, lines 1099-1102: a record's expiry.
NoticeExpired(rec, t) ==
    t - rec.timestamp > (IF Get(rec, "extended_window", FALSE)
                         THEN extended_expiry ELSE system_notice_window * 2)

\* Lines 1089-1112: notices_to_clean and users_to_clean.
NoticesToClean(rr, t) ==
    {<<u, ty>> \in UNION {{u} \X DOMAIN rr[u] : u \in DOMAIN rr} :
        NoticeExpired(rr[u][ty], t)}

UsersToClean(rr, t) ==
    {u \in DOMAIN rr :
        /\ DOMAIN rr[u] # {}
        /\ \A ty \in DOMAIN rr[u] : NoticeExpired(rr[u][ty], t)}

NoticeScan ==
    /\ notice_cleaner.pc = "sleep"
    /\ now >= notice_cleaner.wake
    /\ notice_cleaner' = [notice_cleaner EXCEPT !.pc = "delete",
                             !.users = UsersToClean(recent_responses, now),
                             !.notices = NoticesToClean(recent_responses, now)]
    /\ UNCHANGED <<svars, call, writing>>
    /\ UNCHANGED <<now, ticks, nframes, processed_messages, message_queue,
                   recent_responses, last_system_notification, latest_message_id,
                   found_pnm_id_flag, history, bargain_counts, last_intent,
                   last_messages, pc, cur, fp_cleaner, inLog, genLog, dropLog, wire>>

\* Lines 1114-1125: delete the users, then the notices of the users left.
NoticeDelete ==
    /\ notice_cleaner.pc = "delete"
    /\ LET left == Del(recent_responses, notice_cleaner.users)
       IN  recent_responses' =
              [u \in DOMAIN left |->
                  Del(left[u], {ty \in DOMAIN left[u] :
                                   <<u, ty>> \in notice_cleaner.notices})]
    /\ notice_cleaner' = [pc |-> "sleep", wake |-> now + notice_sweep_period,
                          users |-> {}, notices |-> {}]
    /\ UNCHANGED <<svars, call, writing>>
    /\ UNCHANGED <<now, ticks, nframes, processed_messages, message_queue,
                   last_system_notification, latest_message_id, found_pnm_id_flag,
                   history, bargain_counts, last_intent, last_messages, pc, cur,
                   fp_cleaner, inLog, genLog, dropLog, wire>>

\* ------------------------------------------------------------------------
\* The dispatch engine: read loop, workers, cleaners
\* ------------------------------------------------------------------------

WorkerNext ==
    \E w \in Workers :
        \/ WorkerTake(w)
        \/ WorkerStamp(w)
        \/ WorkerNotice(w)
        \/ WorkerContext(w)
        \/ WorkerReply(w)
        \/ WorkerRecord(w)
        \/ WorkerResolve(w)
        \/ WorkerSend(w)

\* The threads when the generation and the send can fail.
FaultyWorkerNext ==
    \E w \in Workers :
        \/ WorkerTake(w)
        \/ WorkerStamp(w)
        \/ WorkerNotice(w)
        \/ WorkerContext(w)
        \/ Reply(w, FaultyGenerations)
        \/ WorkerRecord(w)
        \/ WorkerResolve(w)
        \/ Send(w, {"sent", "failed"})

CleanerNext ==
    \/ FingerprintScan
    \/ FingerprintDelete
    \/ NoticeScan
    \/ NoticeDelete

\* The read loop receives one of the frames, while fewer than max arrived.
Arrive(frames, max) == nframes < max /\ \E f \in frames : HandleMessage(f)

\* The clock advances by one of the steps, while fewer than MaxTicks did.
Advance(steps) == ticks < MaxTicks /\ \E d \in steps : Tick(d)

\* Bursts of one chat message.
DedupNext ==
    \/ Arrive(DedupFrames, MaxBurst)
    \/ Advance(DedupSteps)
    \/ WorkerNext
    \/ CleanerNext

SpecDedup == Init /\ [][DedupNext]_vars

\* System notices of one user.
NoticeNext ==
    \/ Arrive(NoticeFrames, MaxNotices)
    \/ Advance(NoticeSteps)
    \/ WorkerNext
    \/ CleanerNext

SpecNotice == Init /\ [][NoticeNext]_vars

\* Frames of every kind, with and without thread ids.
ThreadNext ==
    \/ Arrive(ThreadFrames, MaxInbound)
    \/ Advance(ThreadSteps)
    \/ WorkerNext
    \/ CleanerNext

SpecThread == Init /\ [][ThreadNext]_vars

\* "New message" notices of two users about two items.
GuardNext ==
    \/ Arrive(GuardFrames, MaxGuarded)
    \/ Advance(GuardSteps)
    \/ WorkerNext

SpecGuard == Init /\ [][GuardNext]_vars

\* Messages of the session's own identity, as a chat body and as a msgs
\* entry, and a message of a peer.
EchoNext ==
    \/ Arrive(EchoFrames, MaxEchoes)
    \/ WorkerNext

SpecEcho == Init /\ [][EchoNext]_vars

\* Two users who send the same text, and one who asks for the price.
SharedNext ==
    \/ Arrive(SharedFrames, MaxShared)
    \/ WorkerNext

SpecShared == Init /\ [][SharedNext]_vars

\* Units of every kind of reply, within one instant, with failing
\* generations and sends.
UnitNext ==
    \/ Arrive(UnitFrames, MaxUnits)
    \/ FaultyWorkerNext

SpecUnits == Init /\ [][UnitNext]_vars

\* ------------------------------------------------------------------------
\* The session: run, connect, init, heartbeat_loop
\* ------------------------------------------------------------------------

heartbeat_interval == 15 * MsPerSec
heartbeat_timeout == 5 * MsPerSec
reconnect_pause == 5           \* seconds connect() sleeps after an error
max_token_failures == 3
max_ws_connection_attempts == 3
max_delay == 30
max_consecutive_failures == 10

MaxAttempts == 2     \* calls of connect() per behaviour
MaxSeconds == 25     \* seconds of session time per behaviour
MaxPushes == 1       \* push frames the session's read loop hands on
MaxReconnects == 11  \* calls of connect() per behaviour, unreachable server
FaultSeconds == 1    \* seconds of session time, session with dispatch
FaultAttempts == 1   \* calls of connect() per behaviour, session with dispatch
MaxFaultFrames == 3  \* inbound frames per behaviour, session with dispatch
ReconnectSeconds == 60   \* seconds of session time, unreachable server
HealAttempts == 3    \* calls of connect() per behaviour, runs with fairness
HealSeconds == 3     \* seconds of registered and reading, runs with fairness

\* The strings of the token exchange.
txt_expired == <<"c_ling4", "c_pai2", "c_guo", "c_qi">>
txt_empty == <<"c_ling4", "c_pai2", "c_wei", "c_kong">>
mark_expired == <<"::">> \o txt_expired
txt_fetch_failed == <<"c_huo4", "c_qu", "token", "c_shi1", "c_bai">>
kw_token_empty == <<"TOKEN_EMPTY">>
kw_token_expired == <<"TOKEN_EXPIRED">>
kw_success == <<"SUCCESS", "::">>

\* get_token, lines 116-119: the codes that stand for an expired token.
token_expired_keywords ==
    << <<"TOKEN_EMPTY">>, <<"TOKEN_EXPIRED">>, <<"SESSION_EXPIRED">>,
       <<"SID_INVALID">>, <<"FAIL_SYS_", "TOKEN_EXOIRED">>,
       <<"FAIL_SYS_", "TOKEN_EMPTY">>, <<"ILLEGAL_ACCESS">> >>

\* What a call of get_token meets: cookies without the signing fields
\* ("missing"), an HTTP status other than 200 ("http"), an exception of the
\* request ("raise"), or a JSON body ("json") with its ret list, its success
\* flag and whether data holds an accessToken.
Answer(name, status, ret, success, accessToken) ==
    [name |-> name, status |-> status, ret |-> ret, success |-> success,
     accessToken |-> accessToken]

answer_token ==
    Answer("token", "json", << kw_success \o <<"c_diao", "c_yong", "c_cheng", "c_gong">> >>,
           TRUE, TRUE)
answer_session_expired ==
    Answer("session_expired", "json",
           << <<"FAIL_SYS_", "SESSION_EXPIRED", "::", "c_guo", "c_qi">> >>, FALSE, FALSE)
answer_rate_limit ==
    Answer("rate_limit", "json", << <<"FAIL_BIZ_", "RATE_LIMIT">> >>, FALSE, FALSE)
answer_no_token ==
    Answer("no_token", "json", << kw_success \o <<"c_diao", "c_yong", "c_cheng", "c_gong">> >>,
           TRUE, FALSE)
answer_http_500 == Answer("http_500", "http", <<>>, FALSE, FALSE)
answer_network == Answer("network", "raise", <<>>, FALSE, FALSE)
answer_missing_cookie == Answer("missing_cookie", "missing", <<>>, FALSE, FALSE)

TokenAnswers ==
    {answer_token, answer_session_expired, answer_rate_limit, answer_no_token,
     answer_http_500, answer_network, answer_missing_cookie}
UnreachableAnswers == {answer_network}

\* Python s.replace(sub, ""), for a sub that does not overlap itself.
RECURSIVE Removed(_, _)
Removed(sub, s) ==
    IF ~Contains(sub, s) THEN s
    ELSE LET i == CHOOSE k \in 0..(Len(s) - Len(sub)) :
                     /\ \A j \in 1..Len(sub) : s[k + j] = sub[j]
                     /\ \A m \in 0..(k - 1) : \E j \in 1..Len(sub) : s[m + j] # sub[j]
         IN  Removed(sub, SubSeq(s, 1, i) \o SubSeq(s, i + Len(sub) + 1, Len(s)))

\* get_token, lines 102-126: the pass over ret[0].
MarkExpiredCodes(a) ==
    IF a.ret = <<>> THEN a
    ELSE IF Contains(kw_success, a.ret[1]) /\ a.success /\ a.accessToken
    THEN [a EXCEPT !.ret[1] = Removed(mark_expired, @)]
    ELSE IF AnyIn(token_expired_keywords, a.ret[1]) /\ ~Contains(mark_expired, a.ret[1])
    THEN [a EXCEPT !.ret[1] = @ \o mark_expired]
    ELSE a

\* get_token, lines 129-150: the pass over the success flag.
MarkUnsuccessful(a) ==
    IF ~a.success
    THEN IF a.ret = <<>>
         THEN [a EXCEPT !.ret = << <<"API_RESPONSE_NOT_SUCCESS">> \o mark_expired >>]
         ELSE IF ~\E k \in 1..Len(a.ret) : Contains(txt_expired, a.ret[k])
         THEN [a EXCEPT !.ret[1] = @ \o mark_expired]
         ELSE a
    ELSE IF a.accessToken
    THEN IF a.ret # <<>> THEN [a EXCEPT !.ret[1] = Removed(mark_expired, @)] ELSE a
    ELSE IF a.ret = <<>>
    THEN [a EXCEPT !.ret = << <<"NO_ACCESS_TOKEN">> \o mark_expired >>,
                   !.success = FALSE]
    ELSE a

\* XianyuApis.get_token: the dict it returns.
get_token(a) ==
    CASE a.status = "missing" ->
           [a EXCEPT !.ret = << <<"FAIL_SYS_", "TOKEN_EMPTY", "::">> \o txt_empty >>]
      [] a.status = "http" ->
           [a EXCEPT !.ret = << <<"HTTP_ERROR", "::", "500">> \o mark_expired >>]
      [] a.status = "raise" ->
           [a EXCEPT !.ret = << <<"EXCEPTION", "::", "error">> \o mark_expired >>]
      [] OTHER -> MarkUnsuccessful(MarkExpiredCodes(a))

\* str(token_info), as far as the tests on the message go: the ret strings.
RECURSIVE Shown(_)
Shown(ret) == IF ret = <<>> THEN <<>> ELSE Head(ret) \o <<",">> \o Shown(Tail(ret))

\* A register frame that needs no token.
HasToken_Always(info) == TRUE

\* init(), lines 85-103: the token is there, or the message of the ValueError.
HasToken(info) == info.accessToken

init_error(info) ==
    IF info.ret = <<>> THEN txt_fetch_failed \o <<"unknown">>
    ELSE IF \/ Contains(txt_expired, info.ret[1])
            \/ Contains(kw_token_empty, info.ret[1])
            \/ Contains(kw_token_expired, info.ret[1])
    THEN txt_fetch_failed \o Shown(info.ret) \o mark_expired
    ELSE txt_fetch_failed \o Shown(info.ret)

\* connect(), line 819: the ValueError counts as a token failure.
CountsAsTokenFailure(msg) == Contains(txt_expired, msg) \/ Contains(txt_empty, msg)

\* connect(), line 883: the ValueError goes to _handle_token_failure.
AsksForCookies(msg) ==
    /\ Contains(txt_fetch_failed, msg)
    /\ \/ Contains(txt_expired, msg)
       \/ Contains(kw_token_empty, msg)
       \/ Contains(kw_token_expired, msg)

\* get_login_cookies (xianyu_utils.py, line 162): the names of its parameters.
get_login_cookies_params == {}

\* _handle_token_failure: in forced mode the saved browser state is deleted;
\* then get_login_cookies is called with the keyword force_login.  The call
\* raises TypeError unless the function has that parameter; the handler at
\* line 958 logs it, and the cookies stay as they were.
handle_token_failure(force_manual_login, cause) ==
    Append(logins, [attempt |-> attempts, force |-> force_manual_login,
                    state_deleted |-> force_manual_login,
                    provider_ran |-> "force_login" \in get_login_cookies_params,
                    cause |-> cause])

\* run(), line 991.
Delay(failures) == IF 5 * failures < max_delay THEN 5 * failures ELSE max_delay

\* A ticker that no handler cancels.
Cancelled_Kept(task) == task

\* No sleep between the register frame and the sync frame.
AfterSettle_AtOnce(t) == t

\* init() line 124: asyncio.sleep(1) after the register frame.
AfterSettle(t) == t + MsPerSec

\* connect(), lines 850-855, 859-864 and 892-897: cancel the task.
Cancelled(task) == IF task = "none" THEN "none" ELSE "cancelled"

\* The dispatch engine is at rest while the session is looked at.
SessionOnly ==
    UNCHANGED <<ticks, processed_messages, message_queue, recent_responses,
                last_system_notification, latest_message_id, found_pnm_id_flag,
                history, bargain_counts, last_intent, last_messages, pc, cur,
                fp_cleaner, notice_cleaner, inLog, genLog, dropLog, wire, call,
                writing>>

\* connect() ends in one of its handlers: the socket is closed on the way out
\* of the with block, and the handler sleeps before connect() returns.
ConnectFails ==
    /\ ws_open' = FALSE
    /\ session_pc' = "pause"
    /\ wake' = now + reconnect_pause * MsPerSec
    /\ streak' = streak + 1

\* run() line 971 into connect() lines 780-807: the counters start at zero on
\* every call; websockets.connect opens the socket or raises.
Connect(limit, opens) ==
    /\ session_pc = "run"
    /\ attempts < limit
    /\ attempts' = attempts + 1
    /\ token_failure_count' = 0
    /\ last_fetch' = "none"
    /\ \E opened \in opens :
          IF opened
          THEN /\ ws_open' = TRUE
               /\ session_pc' = "init"
               /\ UNCHANGED <<heartbeat_task, wake, streak, token_run>>
          ELSE \* line 890: except Exception
               /\ heartbeat_task' = Cancelled(heartbeat_task)
               /\ token_run' = 0
               /\ ConnectFails
    /\ UNCHANGED <<now, nframes, hb_wake, last_heartbeat_time,
                   last_heartbeat_response, consecutive_failures, delay, sent, logins>>
    /\ SessionOnly

RunConnect == Connect(MaxAttempts, BOOLEAN)

\* init() lines 80-119 with connect()'s handlers for what it raises: the token
\* is fetched; without one nothing is sent.  A ValueError whose message names
\* an expired or empty token is counted at line 819, and one that line 883
\* accepts is answered by _handle_token_failure; any other is only logged.
Register(answers) ==
    /\ session_pc = "init"
    /\ \E a \in answers :
          LET token_info == get_token(a)
              msg == init_error(token_info)
              count == IF CountsAsTokenFailure(msg) THEN token_failure_count + 1
                       ELSE token_failure_count
          IN  /\ last_fetch' = a.name
              /\ IF HasToken(token_info)
                 THEN /\ sent' = Append(sent, [frame |-> "reg", attempt |-> attempts,
                                               t |-> now])
                      /\ session_pc' = "registered"
                      /\ wake' = AfterSettle(now)
                      /\ token_run' = 0
                      /\ UNCHANGED <<ws_open, token_failure_count, logins, streak>>
                 ELSE /\ token_failure_count' = count
                      /\ logins' = IF AsksForCookies(msg)
                                   THEN handle_token_failure(count >= max_token_failures,
                                                             a.name)
                                   ELSE logins
                      /\ token_run' = token_run + 1
                      /\ ConnectFails
                      /\ UNCHANGED sent
    /\ UNCHANGED <<now, nframes, heartbeat_task, hb_wake, last_heartbeat_time,
                   last_heartbeat_response, consecutive_failures, delay, attempts>>
    /\ SessionOnly

InitRegister == Register(TokenAnswers)

\* init() lines 122-145 and connect() lines 815-829: after the one-second
\* sleep the sync frame goes out, the heartbeat times are set and the
\* heartbeat task is created; the read loop starts.
InitSync ==
    /\ session_pc = "registered"
    /\ now >= wake
    /\ sent' = Append(sent, [frame |-> "sync", attempt |-> attempts, t |-> now])
    /\ token_failure_count' = 0
    /\ last_heartbeat_time' = now
    /\ last_heartbeat_response' = now
    /\ heartbeat_task' = "running"
    /\ hb_wake' = now
    /\ session_pc' = "read"
    /\ UNCHANGED <<now, nframes, ws_open, consecutive_failures, delay, wake,
                   attempts, streak, logins, last_fetch, token_run>>
    /\ SessionOnly

\* connect() lines 832-841: the read loop takes a frame.  A heartbeat
\* response (handle_heartbeat_response) moves last_heartbeat_response; any
\* other frame goes to handle_message.
Read(kinds) ==
    /\ session_pc = "read"
    /\ \E kind \in kinds :
          IF kind = "ack"
          THEN /\ last_heartbeat_response' = now
               /\ UNCHANGED nframes
          ELSE /\ nframes < MaxPushes
               /\ nframes' = nframes + 1
               /\ UNCHANGED last_heartbeat_response
    /\ UNCHANGED <<now, session_pc, ws_open, heartbeat_task, hb_wake,
                   last_heartbeat_time, token_failure_count, consecutive_failures,
                   delay, wake, attempts, streak, sent, logins, last_fetch, token_run>>
    /\ SessionOnly

ReadFrame == Read({"ack", "push"})

\* connect() lines 849-879: the peer ends the connection.  A clean end leaves
\* the loop and connect() returns at once; ConnectionClosed goes through the
\* handler, which asks for new cookies once ws_connection_attempts, a local
\* set to 1 on the way in and to 0 after init(), has reached the maximum.
ReadEnds ==
    /\ session_pc \in {"registered", "read"}
    /\ heartbeat_task' = Cancelled(heartbeat_task)
    /\ \E clean \in BOOLEAN :
          IF clean /\ session_pc = "read"
          THEN /\ ws_open' = FALSE
               /\ session_pc' = "returned"
               /\ streak' = 0
               /\ UNCHANGED <<wake, logins>>
          ELSE LET ws_connection_attempts == IF session_pc = "read" THEN 0 ELSE 1
               IN  /\ logins' = IF ws_connection_attempts >= max_ws_connection_attempts
                                THEN handle_token_failure(
                                        token_failure_count >= max_token_failures,
                                        "closed")
                                ELSE logins
                   /\ ConnectFails
    /\ UNCHANGED <<now, nframes, hb_wake, last_heartbeat_time,
                   last_heartbeat_response, token_failure_count,
                   consecutive_failures, delay, attempts, sent, last_fetch, token_run>>
    /\ SessionOnly

\* heartbeat_loop, lines 706-720: one turn of the loop.  On a late response
\* the loop is left; nothing else is done.
HeartbeatTurn ==
    /\ heartbeat_task = "running"
    /\ now >= hb_wake
    /\ LET current_time == now
           send == current_time - last_heartbeat_time >= heartbeat_interval
           late == current_time - last_heartbeat_response
                      > heartbeat_interval + heartbeat_timeout
       IN  /\ sent' = IF send
                      THEN Append(sent, [frame |-> "heartbeat", attempt |-> attempts,
                                         t |-> now])
                      ELSE sent
           /\ last_heartbeat_time' = IF send THEN now ELSE last_heartbeat_time
           /\ heartbeat_task' = IF late THEN "ended" ELSE "running"
           /\ hb_wake' = IF late THEN hb_wake ELSE now + MsPerSec
    /\ UNCHANGED <<now, nframes, session_pc, ws_open, last_heartbeat_response,
                   token_failure_count, consecutive_failures, delay, wake,
                   attempts, streak, logins, last_fetch, token_run>>
    /\ SessionOnly

\* A run() that leaves its loop once connect() has returned.
AfterConnect_Leaves == "stopped"

\* run() lines 969 and 988-993: the body of while True ends in the sleep
\* before the next turn.
AfterConnect == "delay"

\* run() lines 972-993 once connect() has returned.  connect() lets no
\* Exception out: each of its paths ends in a handler that sleeps and returns,
\* so run() always takes the branch that follows the call.
RunAfterConnect ==
    /\ \/ session_pc = "returned"
       \/ session_pc = "pause" /\ now >= wake
    /\ consecutive_failures' = 0
    /\ delay' = Delay(0)
    /\ wake' = now + Delay(0) * MsPerSec
    /\ session_pc' = AfterConnect
    /\ UNCHANGED <<now, nframes, ws_open, heartbeat_task, hb_wake,
                   last_heartbeat_time, last_heartbeat_response,
                   token_failure_count, attempts, streak, sent, logins, last_fetch, token_run>>
    /\ SessionOnly

\* run() line 993: the sleep is over, the loop turns.
RunAgain ==
    /\ session_pc = "delay"
    /\ now >= wake
    /\ session_pc' = "run"
    /\ UNCHANGED <<now, nframes, ws_open, heartbeat_task, hb_wake,
                   last_heartbeat_time, last_heartbeat_response,
                   token_failure_count, consecutive_failures, delay, wake,
                   attempts, streak, sent, logins, last_fetch, token_run>>
    /\ SessionOnly

\* A sleep that is over: the event loop runs its coroutine before more time
\* passes.
SleepOver ==
    \/ session_pc \in {"registered", "pause", "delay"} /\ now >= wake
    \/ heartbeat_task = "running" /\ now >= hb_wake

\* One second passes: in a sleep, or while the read loop waits for a frame.
\* Opening the socket and fetching the token take no time on this clock.
PassSecond(limit) ==
    /\ session_pc \in {"registered", "read", "pause", "delay"}
    /\ ~SleepOver
    /\ now < StartTime + limit * MsPerSec
    /\ now' = now + MsPerSec
    /\ UNCHANGED <<nframes, svars>>
    /\ SessionOnly

Second == PassSecond(MaxSeconds)

SessionNext ==
    \/ RunConnect
    \/ InitRegister
    \/ InitSync
    \/ ReadFrame
    \/ ReadEnds
    \/ HeartbeatTurn
    \/ RunAfterConnect
    \/ RunAgain
    \/ Second

SpecSession == Init /\ [][SessionNext]_vars

\* The server cannot be reached: the socket is refused, or it opens and the
\* token request fails on the network.
ReconnectNext ==
    \/ Connect(MaxReconnects, BOOLEAN)
    \/ Register(UnreachableAnswers)
    \/ RunAfterConnect
    \/ RunAgain
    \/ PassSecond(ReconnectSeconds)

SpecReconnect == Init /\ [][ReconnectNext]_vars

\* A second of one of the sleeps that follow a connection: the one of a
\* handler of connect() (lines 873, 878, 889, 899) or the one of run() (line
\* 993).  These end by themselves, so their seconds are not counted against
\* the seconds of a behaviour.
SleepSecond ==
    /\ session_pc \in {"pause", "delay"}
    /\ ~SleepOver
    /\ now' = now + MsPerSec
    /\ UNCHANGED <<nframes, svars>>
    /\ SessionOnly

\* A session whose connections open or are refused, register or fail on the
\* token, read and are ended by the peer, with sleeps that end.
HealNext ==
    \/ Connect(HealAttempts, BOOLEAN)
    \/ Register(TokenAnswers)
    \/ InitSync
    \/ Read({"ack"})
    \/ ReadEnds
    \/ HeartbeatTurn
    \/ RunAfterConnect
    \/ RunAgain
    \/ PassSecond(HealSeconds)
    \/ SleepSecond

\* The event loop runs a coroutine whose await is over, and time passes
\* while run() or a handler of connect() sleeps.
SpecHeal ==
    /\ Init /\ [][HealNext]_vars
    /\ WF_vars(RunAfterConnect) /\ WF_vars(RunAgain) /\ WF_vars(SleepSecond)

\* ------------------------------------------------------------------------
\* The session and the dispatch engine together
\* ------------------------------------------------------------------------

\* connect() lines 832-841: a frame that is no heartbeat response is handed
\* to handle_message by the read loop, so frames arrive only while the loop
\* reads.  The loop's own handlers (lines 843-847) and the one of
\* handle_message (lines 676-678) log what a frame raises and go on.
Push(frames, max) == session_pc = "read" /\ Arrive(frames, max)

\* One connection that registers and reads, frames that are JSON and frames
\* that are not, generations and sends that fail, and a peer that may end the
\* connection at any moment.
FaultNext ==
    \/ Connect(FaultAttempts, {TRUE})
    \/ Register({answer_token})
    \/ InitSync
    \/ Read({"ack"})
    \/ ReadEnds
    \/ HeartbeatTurn
    \/ RunAfterConnect
    \/ RunAgain
    \/ PassSecond(FaultSeconds)
    \/ Push(FaultFrames, MaxFaultFrames)
    \/ FaultyWorkerNext

SpecFaults == Init /\ [][FaultNext]_vars

\* One connection that registers and reads frames of every kind: heartbeat
\* responses, and push frames whose payload is plain, packed or neither.  No
\* worker runs, so what a frame enqueues stays in the queue.
IngressNext ==
    \/ Connect(FaultAttempts, {TRUE})
    \/ Register({answer_token})
    \/ InitSync
    \/ Read({"ack"})
    \/ HeartbeatTurn
    \/ PassSecond(IngressSeconds)
    \/ Push(IngressFrames, MaxIngress)

SpecIngress == Init /\ [][IngressNext]_vars

\* handle_message line 474: the event loop's thread enters websocket.send
\* with the acknowledgement of a frame the read loop has taken.
AckEnter ==
    /\ session_pc = "read"
    /\ nframes < MaxWireFrames
    /\ SessionTask \notin writing
    /\ writing' = writing \cup {SessionTask}
    /\ UNCHANGED <<dvars, svars, call>>

\* handle_message lines 474-674: the send of the acknowledgement returns
\* and the frame is handled.
AckLeave ==
    /\ SessionTask \in writing
    /\ \E f \in WireFrames : HandleMessage(f)

\* _message_worker line 1460, send_msg_static line 307: the worker's thread
\* starts an event loop of its own with asyncio.run and enters ws.send on
\* the websocket the read loop handed over with the task.  No lock is taken.
WireEnter(w) ==
    /\ pc[w] = "send"
    /\ w \notin writing
    /\ writing' = writing \cup {w}
    /\ UNCHANGED <<dvars, svars, call>>

\* send_msg_static lines 307-308: the send of the reply returns.
WireLeave(w) == w \in writing /\ WorkerSend(w)

\* One connection, chat messages and the replies to them, with the sends on
\* the websocket as steps of their own.
WireNext ==
    \/ Connect(FaultAttempts, {TRUE})
    \/ Register({answer_token})
    \/ InitSync
    \/ PassSecond(FaultSeconds)
    \/ AckEnter
    \/ AckLeave
    \/ \E w \in Workers :
          \/ WorkerTake(w)
          \/ WorkerStamp(w)
          \/ WorkerNotice(w)
          \/ WorkerContext(w)
          \/ WorkerReply(w)
          \/ WorkerRecord(w)
          \/ WorkerResolve(w)
          \/ WireEnter(w)
          \/ WireLeave(w)

SpecWire == Init /\ [][WireNext]_vars

\* The same connection with frames of every kind the transport hands on or
\* keeps to itself, the same chat message twice among them.
HandlerNext ==
    \/ Connect(FaultAttempts, {TRUE})
    \/ Register({answer_token})
    \/ InitSync
    \/ Read({"ack"})
    \/ HeartbeatTurn
    \/ PassSecond(IngressSeconds)
    \/ Push(HandlerFrames, MaxIngress)

SpecHandler == Init /\ [][HandlerNext]_vars

\* ------------------------------------------------------------------------
\* ChatContextManager on its own
\* ------------------------------------------------------------------------

StoreKeys == {<<"u1", "i1">>, <<"u2", "i1">>}

StoreOnly ==
    /\ UNCHANGED <<svars, writing>>
    /\ UNCHANGED <<now, ticks, nframes, processed_messages, message_queue,
                   recent_responses, last_system_notification, latest_message_id,
                   found_pnm_id_flag, last_intent, last_messages, pc, cur,
                   fp_cleaner, notice_cleaner, inLog, genLog, dropLog, wire>>

StoreAddMessage ==
    /\ \E key \in StoreKeys :
          /\ history' = add_message(history, key, "user", txt_hello)
          /\ call' = [op |-> "add_message", key |-> key, out |-> 0]
    /\ UNCHANGED bargain_counts
    /\ StoreOnly

StoreIncrement ==
    /\ \E key \in StoreKeys :
          /\ get_bargain_count(bargain_counts, key) < MaxBargains
          /\ bargain_counts' = increment_bargain_count(bargain_counts, key)
          /\ call' = [op |-> "increment_bargain_count", key |-> key, out |-> 0]
    /\ UNCHANGED history
    /\ StoreOnly

StoreGetBargainCount ==
    /\ \E key \in StoreKeys :
          call' = [op |-> "get_bargain_count", key |-> key,
                   out |-> get_bargain_count(bargain_counts, key)]
    /\ UNCHANGED <<history, bargain_counts>>
    /\ StoreOnly

StoreGetContext ==
    /\ \E key \in StoreKeys :
          call' = [op |-> "get_context", key |-> key,
                   out |-> Len(get_context(history, bargain_counts, key))]
    /\ UNCHANGED <<history, bargain_counts>>
    /\ StoreOnly

StoreNext ==
    \/ StoreAddMessage
    \/ StoreIncrement
    \/ StoreGetBargainCount
    \/ StoreGetContext

SpecStore == Init /\ [][StoreNext]_vars

\* ------------------------------------------------------------------------
\* The send frame and its decoding
\* ------------------------------------------------------------------------

\* Texts are sequences of code points; JSON documents and byte strings are
\* sequences of character codes; base64 text is a sequence of 6-bit values,
\* with 64 for the padding character.
ch_quote == 34
ch_backslash == 92
ch_newline == 10
\* Inputs: a letter, the characters JSON escapes, a CJK character (U+4F60)
\* and a character outside the basic plane (U+1F600).
EnvelopeChars == {97, ch_quote, ch_backslash, ch_newline, 20320, 128512}
EnvelopeTexts == UNION {[1..n -> EnvelopeChars] : n \in 0..MaxTextLen}
EnvelopeCids == {"cid1", "cid2"}
EnvelopeToids == {"u1", "u2"}

\* json.dumps with ensure_ascii: hexadecimal digits of a \uXXXX escape.
HexDigit(d) == IF d < 10 THEN 48 + d ELSE 87 + d
U4(c) == <<ch_backslash, 117, HexDigit(c \div 4096), HexDigit((c \div 256) % 16),
           HexDigit((c \div 16) % 16), HexDigit(c % 16)>>

\* A string encoder that copies every character.
EscapeChar_Raw(c) == <<c>>

\* json.dumps: one character of a string.
EscapeChar(c) ==
    IF c = ch_quote THEN <<ch_backslash, ch_quote>>
    ELSE IF c = ch_backslash THEN <<ch_backslash, ch_backslash>>
    ELSE IF c = ch_newline THEN <<ch_backslash, 110>>
    ELSE IF c = 13 THEN <<ch_backslash, 114>>
    ELSE IF c = 9 THEN <<ch_backslash, 116>>
    ELSE IF c = 12 THEN <<ch_backslash, 102>>
    ELSE IF c = 8 THEN <<ch_backslash, 98>>
    ELSE IF c >= 32 /\ c <= 126 THEN <<c>>
    ELSE IF c < 65536 THEN U4(c)
    ELSE U4(55296 + ((c - 65536) \div 1024)) \o U4(56320 + ((c - 65536) % 1024))

RECURSIVE EscapeString(_)
EscapeString(t) ==
    IF t = <<>> THEN <<>> ELSE EscapeChar(Head(t)) \o EscapeString(Tail(t))

\* json.dumps(text_obj), lines 249-255: {"contentType": 1, "text": {"text": "..."}}
doc_open == <<123, 34, 99, 111, 110, 116, 101, 110, 116, 84, 121, 112, 101, 34, 58, 32>>
doc_middle == <<44, 32, 34, 116, 101, 120, 116, 34, 58, 32, 123, 34, 116, 101, 120,
                116, 34, 58, 32, 34>>
doc_close == <<34, 125, 125>>
json_dumps(text_obj) ==
    doc_open \o <<48 + text_obj.contentType>> \o doc_middle
       \o EscapeString(text_obj.text.text) \o doc_close

\* base64.b64encode and base64.b64decode.
RECURSIVE b64encode(_)
b64encode(bs) ==
    IF bs = <<>> THEN <<>>
    ELSE IF Len(bs) = 1
    THEN <<bs[1] \div 4, (bs[1] % 4) * 16, 64, 64>>
    ELSE IF Len(bs) = 2
    THEN <<bs[1] \div 4, ((bs[1] % 4) * 16) + (bs[2] \div 16), (bs[2] % 16) * 4, 64>>
    ELSE <<bs[1] \div 4, ((bs[1] % 4) * 16) + (bs[2] \div 16),
           ((bs[2] % 16) * 4) + (bs[3] \div 64), bs[3] % 64>>
            \o b64encode(SubSeq(bs, 4, Len(bs)))

RECURSIVE b64decode(_)
b64decode(cs) ==
    IF Len(cs) < 4 THEN <<>>
    ELSE LET b1 == (cs[1] * 4) + (cs[2] \div 16)
             b2 == ((cs[2] % 16) * 16) + (cs[3] \div 4)
             b3 == ((cs[3] % 4) * 64) + cs[4]
         IN  IF cs[3] = 64 THEN <<b1>>
             ELSE IF cs[4] = 64 THEN <<b1, b2>>
             ELSE <<b1, b2, b3>> \o b64decode(SubSeq(cs, 5, Len(cs)))

\* json.loads: a string literal from position i, after its opening quote.
HexValue(c) ==
    IF c >= 48 /\ c <= 57 THEN c - 48
    ELSE IF c >= 97 /\ c <= 102 THEN c - 87
    ELSE IF c >= 65 /\ c <= 70 THEN c - 55
    ELSE 0 - 1
U4Value(s, i) ==
    IF i + 3 > Len(s) \/ \E k \in 0..3 : HexValue(s[i + k]) < 0 THEN 0 - 1
    ELSE (HexValue(s[i]) * 4096) + (HexValue(s[i + 1]) * 256)
            + (HexValue(s[i + 2]) * 16) + HexValue(s[i + 3])
NoString == [ok |-> FALSE, text |-> <<>>, next |-> 0]

RECURSIVE ParseString(_, _, _)
ParseString(s, i, acc) ==
    IF i > Len(s) THEN NoString
    ELSE IF s[i] = ch_quote THEN [ok |-> TRUE, text |-> acc, next |-> i + 1]
    ELSE IF s[i] < 32 THEN NoString
    ELSE IF s[i] # ch_backslash THEN ParseString(s, i + 1, Append(acc, s[i]))
    ELSE IF i + 1 > Len(s) THEN NoString
    ELSE LET e == s[i + 1]
         IN  IF e \in {ch_quote, ch_backslash, 47}
             THEN ParseString(s, i + 2, Append(acc, e))
             ELSE IF e = 110 THEN ParseString(s, i + 2, Append(acc, ch_newline))
             ELSE IF e = 114 THEN ParseString(s, i + 2, Append(acc, 13))
             ELSE IF e = 116 THEN ParseString(s, i + 2, Append(acc, 9))
             ELSE IF e = 102 THEN ParseString(s, i + 2, Append(acc, 12))
             ELSE IF e = 98 THEN ParseString(s, i + 2, Append(acc, 8))
             ELSE IF e # 117 THEN NoString
             ELSE LET u == U4Value(s, i + 2)
                      low == IF i + 7 <= Len(s) /\ s[i + 6] = ch_backslash
                                   /\ s[i + 7] = 117
                             THEN U4Value(s, i + 8) ELSE 0 - 1
                  IN  IF u < 0 THEN NoString
                      ELSE IF u >= 55296 /\ u <= 56319 /\ low >= 56320 /\ low <= 57343
                      THEN ParseString(s, i + 12,
                              Append(acc, 65536 + ((u - 55296) * 1024) + (low - 56320)))
                      ELSE ParseString(s, i + 6, Append(acc, u))

\* json.loads of a document of the shape json_dumps writes; any other
\* document raises.
NoPayload == [ok |-> FALSE, contentType |-> 0, text |-> <<>>]
json_loads(s) ==
    LET n1 == Len(doc_open)
        n2 == n1 + 1 + Len(doc_middle)
    IN  IF Len(s) < n2 \/ SubSeq(s, 1, n1) # doc_open
           \/ s[n1 + 1] < 48 \/ s[n1 + 1] > 57
           \/ SubSeq(s, n1 + 2, n2) # doc_middle
        THEN NoPayload
        ELSE LET r == ParseString(s, n2 + 1, <<>>)
             IN  IF r.ok /\ SubSeq(s, r.next, Len(s)) = <<125, 125>>
                 THEN [ok |-> TRUE, contentType |-> s[n1 + 1] - 48, text |-> r.text]
                 ELSE NoPayload

\* send_msg_static, lines 245-303: the frame written to the socket.
send_frame(cid, toid, own, text, reply_to_message_id) ==
    LET text_obj == [contentType |-> 1, text |-> [text |-> text]]
        text_base64 == b64encode(json_dumps(text_obj))
    IN  [lwp |-> "/r/MessageSend/sendByReceiverScope",
         cid |-> <<cid, "@goofish">>,
         content |-> [contentType |-> 101,
                      custom |-> [type |-> 1, data |-> text_base64]],
         extJson |-> IF reply_to_message_id = NoId THEN <<>>
                     ELSE <<"replyMessageId", reply_to_message_id>>,
         actualReceivers |-> << <<toid, "@goofish">>, <<own, "@goofish">> >>]

\* handle_live_message, lines 1510-1522: the payload of a message's content.
decode_content(msg) ==
    IF msg.content.contentType = 101
    THEN json_loads(b64decode(msg.content.custom.data))
    ELSE NoPayload

\* A frame is built and its content decoded.
EnvelopeRoundTrip ==
    /\ \E cid \in EnvelopeCids, toid \in EnvelopeToids, text \in EnvelopeTexts :
          LET frame == send_frame(cid, toid, myid, text, NoId)
          IN  call' = [op |-> "envelope", cid |-> cid, toid |-> toid, text |-> text,
                       data |-> frame.content.custom.data,
                       decoded |-> decode_content(frame)]
    /\ UNCHANGED <<dvars, svars, writing>>

SpecEnvelope == Init /\ [][EnvelopeRoundTrip]_vars

\* ------------------------------------------------------------------------
\* Properties of the dispatch engine
\* ------------------------------------------------------------------------

\* The chat events handle_message has seen, and the relation between two of
\* them with the same (sender, text, item), the first arriving no later.
ChatIn == {e \in inLog : e.path = "chat"}
SameTriple(a, b) == a.user = b.user /\ a.text = b.text /\ a.item = b.item
Precedes(a, b) == a.ev[1] < b.ev[1]
Apart(t1, t2) == IF t1 < t2 THEN t2 - t1 ELSE t1 - t2
Quiet == message_queue = <<>> /\ \A w \in Workers : pc[w] = "idle"

\* C1: for every fingerprint, the calls of generate_reply made for two
\* different events that carry it are at least processed_window apart,
\* whatever the order of the steps of the read loop and the workers.
OneGenerationPerWindow ==
    \A a, b \in genLog :
        (a.fp # NoText /\ a.fp = b.fp /\ a.ev # b.ev)
            => Apart(a.t, b.t) >= processed_window

\* C2: of two chat events with the same (sender, text, item) that reach
\* handle_message less than processed_window apart, exactly one is put on the
\* queue: never both, and neither only while an earlier event of the same
\* triple, itself enqueued, accounts for the record that holds them back.
ExactlyOneOfTwoEnqueued ==
    \A a, b \in ChatIn :
        (SameTriple(a, b) /\ Precedes(a, b) /\ b.t - a.t < processed_window)
            => /\ ~(a.enq /\ b.enq)
               /\ (~a.enq /\ ~b.enq)
                     => \E c \in ChatIn : SameTriple(c, a) /\ Precedes(c, a) /\ c.enq

\* C3: a chat event enqueued by handle_message is skipped by the worker's
\* fingerprint re-check only if another event of the same fingerprint had
\* arrived by then: the record its own ingress pass wrote never holds it
\* back, however long it waited in the queue.
NoFalsePositiveOnOwnRecord ==
    \A d \in dropLog :
        d.layer = "fingerprint"
            => \E e, o \in ChatIn :
                  e.ev = d.ev /\ o.ev # d.ev /\ SameTriple(e, o) /\ o.t <= d.t

\* C4: once a burst of MaxBurst identical price questions, all inside five
\* seconds, has been handled to the end, generate_reply was called exactly
\* once, the bargain count of the conversation is 1 and its history is one
\* user turn followed by one assistant turn.
BurstHandledOnce ==
    (/\ Quiet
     /\ nframes = MaxBurst
     /\ \A a, b \in ChatIn : SameTriple(a, b) /\ Apart(a.t, b.t) <= 5 * MsPerSec)
        => /\ Cardinality(genLog) = 1
           /\ Get(bargain_counts, <<"u1", "i1">>, 0) = 1
           /\ Len(Get(history, <<"u1", "i1">>, <<>>)) = 2
           /\ history[<<"u1", "i1">>][1].role = "user"
           /\ history[<<"u1", "i1">>][2].role = "assistant"

\* The replies to shipping notices, and to system notices, by position on the wire.
ShippingReplies == {i \in DOMAIN wire : wire[i].shipping}
NoticeReplies == {i \in DOMAIN wire : wire[i].notice}
SameUserSubtype(i, j) == wire[i].to = wire[j].to /\ wire[i].type = wire[j].type

\* C5: after the reply to a shipping notice, a notice of the same subtype for
\* the same user that a worker takes up less than two hours after that reply
\* was sent gets no reply.
ShippingQuietForTwoHours ==
    \A i, j \in ShippingReplies :
        (i # j /\ SameUserSubtype(i, j) /\ wire[j].t_take > wire[i].t)
            => wire[j].t_take - wire[i].t >= extended_expiry

\* C6: of two system notices with the same (user, subtype) that workers take
\* from the queue less than system_notice_window apart, at most one is
\* answered, whatever the order of the workers' steps.
OneReplyPerNoticeWindow ==
    \A i, j \in NoticeReplies :
        (i # j /\ SameUserSubtype(i, j))
            => Apart(wire[i].t_take, wire[j].t_take) >= system_notice_window

RepliesReferToMarkedIds ==
    \A i \in DOMAIN wire :
        wire[i].replyMessageId = NoId \/ HasPNM(wire[i].replyMessageId)

\* Replies of each kind went out: one without a reference although its raw
\* message had an unmarked id, and one with a reference.
MarkedAndUnmarkedReplies ==
    /\ \E i \in DOMAIN wire :
          wire[i].raw # NoId /\ ~HasPNM(wire[i].raw) /\ wire[i].replyMessageId = NoId
    /\ \E i \in DOMAIN wire : HasPNM(wire[i].replyMessageId)

\* ------------------------------------------------------------------------
\* Properties of the session
\* ------------------------------------------------------------------------

\* C9: a session whose read loop runs has had a heartbeat response within the
\* last heartbeat_interval + heartbeat_timeout + 1 seconds: without one it
\* leaves the read loop.
ActiveSessionHasRecentAck ==
    session_pc = "read"
        => now - last_heartbeat_response
              <= heartbeat_interval + heartbeat_timeout + MsPerSec

\* C10: the delay run() sleeps before the next call of connect() is
\* min(30, 5 * n) seconds after n calls in a row that failed.
DelayGrowsWithFailures ==
    session_pc = "delay" => delay = Delay(streak)

\* The call of _handle_token_failure made in the current call of connect().
LoginsNow == {i \in DOMAIN logins : logins[i].attempt = attempts}

\* C11: when run() comes to its delay, its consecutive-failure counter is the
\* number of calls of connect() that ended through an error since the last
\* one that ended gracefully.
FailuresAreCounted ==
    session_pc = "delay" => consecutive_failures = streak

\* C12: when run() comes to its delay after max_consecutive_failures failed
\* calls of connect() in a row, a forced re-acquisition has taken place (the
\* saved browser state deleted, the credential provider run in forced mode)
\* and the consecutive-failure counter is 0.
ForcedLoginAfterTenFailures ==
    (session_pc = "delay" /\ streak >= max_consecutive_failures)
        => /\ \E i \in LoginsNow :
                 logins[i].force /\ logins[i].state_deleted /\ logins[i].provider_ran
           /\ consecutive_failures = 0

\* C13: when the token fetch has failed in more than max_token_failures calls
\* of connect() in a row, the call in which it last failed asks for new
\* cookies in forced mode.
ForcedLoginAfterTokenFailures ==
    (session_pc = "pause" /\ token_run > max_token_failures)
        => \E i \in LoginsNow : logins[i].force

\* What the token endpoint's answers stand for: an empty or expired token, or
\* a transient failure (HTTP error status, network exception, unsuccessful
\* response without an expiry code).
ExpiryAnswers == {"session_expired", "missing_cookie"}
TransientAnswers == {"http_500", "network", "rate_limit"}

\* C14: a call of connect() whose token fetch failed asks for new cookies
\* when the failure was an empty or expired token, and does not when the
\* failure was transient.
OnlyExpiredTokensAskForCookies ==
    session_pc = "pause"
        => /\ last_fetch \in ExpiryAnswers => LoginsNow # {}
           /\ last_fetch \in TransientAnswers => LoginsNow = {}

\* ------------------------------------------------------------------------
\* Properties of a unit of work
\* ------------------------------------------------------------------------

FallbackReplies == {llm_busy_reply, default_reply}
FailedGenerations == {g \in genLog : g.outcome \in {"llm_raises", "filter_raises"}}
SentUnits == {wire[i].ev : i \in DOMAIN wire}

\* C16: a unit whose reply generation raised is not ended by that error: the
\* worker goes on with one of the fixed fallback replies, and what it sends
\* for the unit is that reply.
GenerationFailureGetsFallback ==
    \A g \in FailedGenerations :
        /\ \A d \in dropLog : d.ev = g.ev => d.layer = "send"
        /\ \A i \in DOMAIN wire : wire[i].ev = g.ev => wire[i].text \in FallbackReplies
        /\ \/ \E w \in Workers :
                 cur[w].task.ev = g.ev /\ cur[w].bot_reply \in FallbackReplies
           \/ g.ev \in SentUnits
           \/ \E d \in dropLog : d.ev = g.ev

\* The fallback reply of a failed generation went out on the wire.
FallbackWasSent ==
    \E g \in FailedGenerations :
        \E i \in DOMAIN wire : wire[i].ev = g.ev /\ wire[i].text \in FallbackReplies

\* C17: a unit whose send failed is dropped: it is not sent later and not put
\* back on the queue, and the step in which the send fails leaves the worker
\* at the top of its loop and the queue and the session as they were.
SendFailureDropsUnit ==
    /\ [](\A d \in dropLog :
            d.layer = "send"
                => /\ d.ev \notin SentUnits
                   /\ \A k \in DOMAIN message_queue : message_queue[k].ev # d.ev
                   /\ \A w \in Workers : cur[w].task.ev # d.ev)
    /\ [][\A w \in Workers :
            (pc[w] = "send" /\ pc'[w] # "send" /\ wire' = wire)
                => /\ pc'[w] = "idle"
                   /\ message_queue' = message_queue
                   /\ UNCHANGED svars]_vars

\* A worker whose send failed has since sent the reply of another unit.
WorkerSentAfterFailedSend ==
    \E d \in dropLog :
        /\ d.layer = "send"
        /\ \E i \in DOMAIN wire : i > d.nsent /\ wire[i].w = d.w /\ wire[i].ev # d.ev

BargainFollowsOwnGeneration ==
    /\ \A i \in DOMAIN wire :
          wire[i].incremented <=> (wire[i].own_intent = "price")
    /\ \A d \in dropLog :
          d.layer \in {"send", "error"} => (d.incremented <=> (d.own_intent = "price"))

\* C20: a worker lets go of the unit it holds only in the step that sends or
\* drops it, and takes a unit only when it holds none: the reply for one
\* event is out before that worker begins with the next event.
OneUnitAtATime ==
    [][\A w \in Workers :
          cur'[w].task.ev # cur[w].task.ev
              => \/ cur[w].task = NoTask
                 \/ /\ cur'[w].task = NoTask
                    /\ \/ \E i \in DOMAIN wire' : wire'[i].ev = cur[w].task.ev
                       \/ \E d \in dropLog' : d.ev = cur[w].task.ev]_vars

\* One worker has sent the replies of two units.
WorkerSentTwoUnits ==
    \E i, j \in DOMAIN wire : i < j /\ wire[i].w = wire[j].w /\ wire[i].ev # wire[j].ev

\* ------------------------------------------------------------------------
\* Properties of the session and the dispatch engine together
\* ------------------------------------------------------------------------

UnitErrors == {"generation", "error", "send"}
RaisedOutcomes == {"llm_raises", "filter_raises"}

CountOf(b, key) == IF key \in DOMAIN b THEN b[key] ELSE 0

HistoryWithinMaximum ==
    \A k \in DOMAIN history : Len(history[k]) <= max_history

\* ------------------------------------------------------------------------
\* Properties of the send frame
\* ------------------------------------------------------------------------

\* C23: the content of the send frame built for a text, decoded as
\* handle_live_message decodes a message's content, is a payload with
\* contentType 1 whose text is that text.
EnvelopeRoundTripKeepsText ==
    call.op = "envelope"
        => /\ call.decoded.ok
           /\ call.decoded.contentType = 1
           /\ call.decoded.text = call.text

\* A text with a quote and a character outside the basic plane came back.
EscapedTextCameBack ==
    /\ call.op = "envelope"
    /\ call.text = <<ch_quote, 128512>>
    /\ call.decoded.text = call.text

\* ------------------------------------------------------------------------
\* Properties of a connection
\* ------------------------------------------------------------------------

FramesOf(a, kind) == {i \in DOMAIN sent : sent[i].attempt = a /\ sent[i].frame = kind}
Connected == session_pc \in {"init", "registered", "read"}

\* C24: on every connection the register frame is the first frame sent, the
\* sync frame follows it no sooner than the settle delay of one second, and
\* a heartbeat frame is sent, and the heartbeat task runs, only after both.
RegisterSyncHeartbeatOrder ==
    /\ \A i \in DOMAIN sent :
          /\ sent[i].frame = "reg"
                => \A k \in 1..(i - 1) : sent[k].attempt # sent[i].attempt
          /\ sent[i].frame = "sync"
                => \E k \in FramesOf(sent[i].attempt, "reg") :
                      k < i /\ sent[i].t >= sent[k].t + MsPerSec
          /\ sent[i].frame = "heartbeat"
                => \E j \in FramesOf(sent[i].attempt, "sync") : j < i
    /\ (heartbeat_task = "running" /\ Connected)
          => /\ FramesOf(attempts, "reg") # {}
             /\ FramesOf(attempts, "sync") # {}

\* A connection that sent its register frame, its sync frame and a heartbeat.
HeartbeatAfterRegisterAndSync ==
    \E i, j, k \in DOMAIN sent :
        /\ i < j /\ j < k
        /\ sent[i].frame = "reg" /\ sent[j].frame = "sync" /\ sent[k].frame = "heartbeat"
        /\ sent[i].attempt = sent[k].attempt /\ sent[j].attempt = sent[k].attempt

\* C25: a call of connect() whose token fetch failed sends no frame, starts
\* no heartbeat task and never reaches the read loop.
TokenFailed == last_fetch \notin {"none", "token"}
NoSessionWithoutToken ==
    TokenFailed
        => /\ \A i \in DOMAIN sent : sent[i].attempt # attempts
           /\ heartbeat_task # "running"
           /\ session_pc \notin {"registered", "read"}

\* After a connection that registered, a second call of connect() failed to
\* fetch its token and has returned.
SecondAttemptWithoutToken ==
    /\ TokenFailed
    /\ attempts = 2
    /\ FramesOf(1, "sync") # {}
    /\ session_pc = "delay"

\* C26: the heartbeat task runs only while connect() is in its read loop:
\* it is not running once connect() sleeps in a handler or has returned,
\* nor when the next call opens its socket and registers, so no two tasks
\* run at once.
TickerOnlyWhileReading ==
    heartbeat_task = "running" => session_pc = "read"

\* connect() has returned from a connection that was reading, by its clean
\* end and by a handler, and the task it had started is cancelled.
TickerCancelledOnReturn ==
    /\ session_pc = "delay"
    /\ heartbeat_task = "cancelled"
    /\ FramesOf(attempts, "sync") # {}
    /\ attempts = 2
    /\ FramesOf(1, "sync") # {}
    /\ streak = 1


\* ------------------------------------------------------------------------
\* Classification of inbound frames
\* ------------------------------------------------------------------------

\* The entries the ingress log gains in a step.
NewEntries == inLog' \ inLog

\* The log entries of frames whose payload went through decrypt.
Decrypted == {e \in inLog : e.decode \in {"decrypt", "junk"}}

\* C27: classification is first match wins in the order order event,
\* typing, chat message, unclassified: a decrypted body with the order-event
\* shape is taken for an order event and not enqueued even when it has the
\* chat shape too, and a body with the typing and the chat shape is taken
\* for typing and not enqueued.
ClassifiedFirstMatch ==
    \A e \in Decrypted :
       /\ e.order_shape => (e.path = "order" /\ ~e.enq)
       /\ (~e.order_shape /\ e.typing_shape) => (e.path = "typing" /\ ~e.enq)
       /\ (~e.order_shape /\ ~e.typing_shape /\ e.chat_shape) => e.path = "chat"
       /\ (~e.order_shape /\ ~e.typing_shape /\ ~e.chat_shape) => e.path = "other"

\* C27, a state that contradicts it: a body with the closed-transaction
\* phrase and the chat shape was taken for a chat message and enqueued.
OrderEventEnqueuedAsChat ==
    \E e \in Decrypted :
       /\ e.order_shape /\ e.chat_shape
       /\ e.path = "chat" /\ e.enq
       /\ \E i \in DOMAIN message_queue : message_queue[i].ev = e.ev

\* A step in which the read loop takes a heartbeat response.
AckStep == last_heartbeat_response' # last_heartbeat_response /\ nframes' = nframes

\* A step in which handle_message takes a decrypted frame for an order
\* event, for typing or for none of the kinds.
QuietStep == \E e \in NewEntries : e.path \in {"order", "typing", "other"}

\* C28: a frame taken for a heartbeat response, an order event, typing or
\* none of the kinds leaves the worker queue, the fingerprint map and the
\* conversation history as they were, and only a frame of none of the kinds
\* changes the most recent thread-reference id, to a string with the marker.
UnqueuedKindsChangeNothing ==
    [][ (AckStep \/ QuietStep) =>
          /\ message_queue' = message_queue
          /\ processed_messages' = processed_messages
          /\ history' = history
          /\ latest_message_id' # latest_message_id =>
                /\ \E e \in NewEntries : e.path = "other"
                /\ HasPNM(latest_message_id') ]_vars

\* C28, the case: frames of the three unqueued kinds were handled, one of
\* them surfaced a thread reference, and the queue is still empty.
UnqueuedKindsHandled ==
    /\ \E e \in inLog : e.path = "order"
    /\ \E e \in inLog : e.path = "typing" /\ e.chat_shape
    /\ \E e \in inLog : e.path = "other" /\ e.decode = "decrypt"
    /\ latest_message_id = id_m3
    /\ found_pnm_id_flag
    /\ message_queue = <<>>

\* C29: a payload that decodes on the plain path is handled like the same
\* body on the decrypt path: a chat body delivered unencrypted goes through
\* the ingress dedup, so it is enqueued unless the same message was seen
\* within the window before it.
PlainChatHandledLikeDecrypted ==
    \A e \in inLog :
       (e.decode = "plain" /\ e.chat_shape /\ ~e.order_shape /\ ~e.typing_shape) =>
          \/ \E i \in DOMAIN message_queue : message_queue[i].ev = e.ev
          \/ \E c \in inLog : /\ c.ev # e.ev /\ c.enq
                                /\ c.user = e.user /\ c.text = e.text /\ c.item = e.item
                                /\ c.t <= e.t

\* C29, a state that contradicts it: the only frame so far is a chat body
\* on the plain path, and nothing was enqueued or recorded for it.
PlainChatLost ==
    /\ nframes = 1
    /\ \E e \in inLog : e.decode = "plain" /\ e.chat_shape /\ e.text = txt_price
    /\ message_queue = <<>>
    /\ processed_messages = <<>>

\* C30: a payload that neither path turns into the JSON of a message is
\* dropped: the step that takes it enqueues nothing and leaves the
\* thread-reference id, its ever-seen flag and the dedup maps as they were.
MalformedPayloadDropped ==
    [][ (\E e \in NewEntries : e.decode = "junk") =>
          /\ message_queue' = message_queue
          /\ latest_message_id' = latest_message_id
          /\ found_pnm_id_flag' = found_pnm_id_flag
          /\ processed_messages' = processed_messages
          /\ recent_responses' = recent_responses
          /\ last_system_notification' = last_system_notification ]_vars

\* C30, a state that contradicts it: the only frame so far had a payload
\* that is no message, and its printable characters became the thread
\* reference.
JunkBecameThreadReference ==
    /\ nframes = 1
    /\ \E e \in inLog : e.decode = "junk" /\ e.path = "other"
    /\ latest_message_id = <<"m5", ".PNM">>
    /\ found_pnm_id_flag

\* ------------------------------------------------------------------------
\* The injected message handler
\* ------------------------------------------------------------------------

\* The log entries of whole frames that were JSON (msgs entries have their
\* own entries, with a position above 0).
FramesIn == {e \in inLog : e.ev[2] = 0 /\ e.decode # "garbage"}

\* C31: for every inbound frame that is no heartbeat response the transport
\* sends the acknowledgement and then calls the injected message handler
\* once, whatever it takes the frame for.
HandlerOncePerFrame == \A e \in FramesIn : e.did = ack_then_handler

\* C31, a state that contradicts it: a typing frame and the second of two
\* equal chat messages were acknowledged and never reached the handler,
\* while the first chat message did.
HandlerNotCalled ==
    /\ \E e \in FramesIn : e.path = "typing" /\ e.did = ack_only
    /\ \E e \in FramesIn : e.path = "chat" /\ ~e.enq /\ e.did = ack_only
    /\ \E e \in FramesIn : e.path = "chat" /\ e.enq /\ e.did = ack_then_handler

\* ------------------------------------------------------------------------
\* The near-real-time guard
\* ------------------------------------------------------------------------

\* Worker w holds a "new message" notice that went through the guard and
\* the window check and was not suppressed.
PastGuard(w) ==
    /\ pc[w] \notin {"idle", "stamp", "notice"}
    /\ cur[w].is_system_notice
    /\ cur[w].task.send_message = txt_new_message

\* C32: the near-real-time guard is kept per (user, subtype): of two "new
\* message" notices with the same user and subtype handled less than 10 s
\* apart the later one is suppressed by the guard, whatever was handled in
\* between and whichever workers handle them.  So two workers never hold,
\* past the guard, two such notices that both arrived less than 10 s ago.
GuardIsPerUserAndSubtype ==
    \A v, w \in Workers :
       (/\ v # w
        /\ PastGuard(v) /\ PastGuard(w)
        /\ UniqueKey(cur[v].task) = UniqueKey(cur[w].task)
        /\ now - cur[v].task.t_in < near_realtime_window
        /\ now - cur[w].task.t_in < near_realtime_window) => FALSE

\* C32, a state that contradicts it: three workers hold the notices of u1,
\* u2 and u1 again, all past the guard, and the guard's record names the
\* last of them only.
GuardForgotFirstUser ==
    /\ \A w \in Workers : PastGuard(w)
    /\ \E v, w \in Workers :
          /\ v # w
          /\ cur[v].task.send_user_id = "u1" /\ cur[w].task.send_user_id = "u1"
          /\ cur[v].task.t_in = now /\ cur[w].task.t_in = now
    /\ \E w \in Workers : cur[w].task.send_user_id = "u2"

\* ------------------------------------------------------------------------
\* The sweeps
\* ------------------------------------------------------------------------

\* The fingerprints, and the (user, subtype) pairs, whose record a step
\* removes.
SweptFingerprints == DOMAIN processed_messages \ DOMAIN processed_messages'
SweptNotices ==
    {<<u, ty>> \in UNION {{u} \X DOMAIN recent_responses[u] : u \in DOMAIN recent_responses} :
        ~(Has(recent_responses', u) /\ Has(recent_responses'[u], ty))}

\* C33: a sweep removes records only once they are older than 2-3 times
\* their window, so under every interleaving of a sweep with the read loop
\* and the workers no fingerprint record younger than 30 s and no (user,
\* subtype) record younger than 60 s is removed.
NoYoungRecordSwept ==
    [][ /\ \A fp \in SweptFingerprints :
              now - processed_messages[fp] >= processed_window
        /\ \A k \in SweptNotices :
              now - recent_responses[k[1]][k[2]].timestamp >= system_notice_window ]_vars

\* C33, a state that contradicts it: the sweep has removed the record the
\* read loop wrote for an event still in the queue, at the instant it was
\* written.
YoungFingerprintSwept ==
    /\ fp_cleaner.pc = "sleep"
    /\ \E i \in DOMAIN message_queue :
          /\ message_queue[i].t_in = now
          /\ ~Has(processed_messages, message_queue[i].fingerprint)

\* ------------------------------------------------------------------------
\* Reconnection
\* ------------------------------------------------------------------------

\* connect() has ended: it returned from its read loop, or one of its
\* handlers sleeps before it returns.
AttemptEnded == session_pc \in {"returned", "pause"}

\* run() stands at its call of connect().
AttemptStarts == session_pc = "run"

\* C34: after every connection attempt that ends, by a closed transport, a
\* token failure or any exception, run() comes to its next call of
\* connect(); the loop of run() does not end and does not stay between two
\* connections for ever.
EndedAttemptLeadsToNext == AttemptEnded ~> AttemptStarts

\* C34, the case: run() stands at its third call of connect() after a
\* refused socket or a token failure and a connection the peer ended.
ThirdAttemptAfterFailures ==
    /\ AttemptStarts
    /\ attempts = 2
    /\ streak >= 1
    /\ \E i \in DOMAIN sent : sent[i].frame = "sync"

\* ------------------------------------------------------------------------
\* The context of a conversation
\* ------------------------------------------------------------------------

\* The stored rows of a conversation, in the order add_message appended them.
Stored(key) == Get(history, key, <<>>)

\* C35: get_context returns the stored turns of a conversation in append
\* order, the turn appended last among them, for every length of the
\* history: after a call the rows it selected are an ascending run of the
\* stored rows that ends with the last one, unless nothing is stored.
ContextHasLatestTurn ==
    call.op = "get_context" =>
       LET got == get_context(history, bargain_counts, call.key)
           turns == SelectSeq(got, LAMBDA m : m.role # "system")
       IN  /\ call.out = Len(got)
           /\ turns = SubSeq(Stored(call.key), 1, Len(turns))
           /\ Stored(call.key) # <<>> =>
                 Len(Stored(call.key)) \in ContextRows(history, call.key)

\* C35, a state that contradicts it: get_context was called for a
\* conversation at its cap and returned max_history turns of the
\* max_history + 1 stored ones, the last one not among them.
ContextMissesLatestTurn ==
    /\ call.op = "get_context"
    /\ Len(Stored(call.key)) = max_history + 1
    /\ get_bargain_count(bargain_counts, call.key) = 0
    /\ call.out = max_history

\* ------------------------------------------------------------------------
\* The two paths onto the worker queue
\* ------------------------------------------------------------------------

\* The items of the worker queue.
Queued == {message_queue[i] : i \in DOMAIN message_queue}

\* C36: every item on the worker queue went through the ingress dedup and
\* carries its fingerprint, whichever path enqueued it: the fingerprint is
\* the one of its sender, text and item, the ingress record of it exists,
\* and no other item of the same sender, text and item was enqueued within
\* the window of it.
QueuedItemsPassedDedup ==
    \A a \in Queued :
       /\ a.fingerprint = Fingerprint(a.send_user_id, a.send_message, a.item_id)
       /\ Has(processed_messages, a.fingerprint)
       /\ \A b \in Queued :
             (/\ b.ev # a.ev
              /\ b.send_user_id = a.send_user_id
              /\ b.send_message = a.send_message
              /\ b.item_id = a.item_id
              /\ a.t_in <= b.t_in) => b.t_in - a.t_in >= processed_window

\* C36, a state that contradicts it: the same msgs entry came twice at one
\* instant and is twice in the queue, without fingerprint, and no record
\* was written.
LiveEntryQueuedTwice ==
    /\ Len(message_queue) = 2
    /\ \A a \in Queued : ~a.has1 /\ a.fingerprint = NoText /\ a.t_in = now
    /\ message_queue[1].send_user_id = message_queue[2].send_user_id
    /\ message_queue[1].send_message = message_queue[2].send_message
    /\ processed_messages = EmptyMap

\* C37: an inbound chat event whose sender is the session's own identity is
\* never enqueued and never answered, on either path onto the queue.
OwnMessagesIgnored ==
    /\ \A e \in inLog : e.user = myid => ~e.enq
    /\ \A a \in Queued : a.send_user_id # myid
    /\ \A i \in DOMAIN wire : wire[i].to # myid

\* C37, a state that contradicts it: a chat body of the own identity was
\* answered, while a msgs entry of the own identity was passed over.
OwnChatBodyAnswered ==
    /\ \E i \in DOMAIN wire : wire[i].to = myid /\ wire[i].has1
    /\ \E e \in inLog : e.path = "live" /\ e.user = myid /\ ~e.enq

\* ------------------------------------------------------------------------
\* Writers of the websocket
\* ------------------------------------------------------------------------

\* C38: the writes to the websocket of a connection are serialized: at no
\* time are two threads, the one of the session task and the worker
\* threads, inside a send on it.
WireWritesSerialized == Cardinality(writing) <= 1

\* C38, a state that contradicts it: the session task is inside the send of
\* an acknowledgement while a worker thread is inside the send of a reply.
AckAndReplyWrittenAtOnce ==
    /\ SessionTask \in writing
    /\ \E w \in Workers : w \in writing /\ pc[w] = "send"

\* ------------------------------------------------------------------------
\* Replies and users
\* ------------------------------------------------------------------------

\* The calls of generate_reply that asked the model.
Generated == {g \in genLog : g.outcome \notin {"reused", "empty"}}

\* C39: the reply generate_reply returns for a message of a user depends
\* on that call and on earlier messages of the same user only: a stored
\* reply is returned only for a user for whose own message, of the same
\* text, it was generated.
RepliesStayWithTheirUser ==
    \A g \in genLog :
       g.outcome = "reused" =>
          \E h \in Generated :
             h.user = g.user /\ h.text = g.text /\ h.ev # g.ev /\ h.t <= g.t

\* C39, a state that contradicts it: two users sent the same text, the
\* model was asked once, and both have that one reply on the wire.
ReplyOfOtherUserSent ==
    /\ Cardinality(Generated) = 1
    /\ \E g \in genLog : g.outcome = "reused" /\ \A h \in Generated : h.user # g.user
    /\ Len(wire) = 2
    /\ wire[1].to # wire[2].to
    /\ wire[1].text = wire[2].text

\* ------------------------------------------------------------------------
\* Suppressed events
\* ------------------------------------------------------------------------

\* The dedup layers of the worker, as the drop log names them.
DedupLayers == {"fingerprint", "guard", "window"}

\* The events a dedup layer suppressed: at ingress, or in a worker.
IngressSuppressed(log) == {e.ev : e \in {x \in log : x.path = "chat" /\ ~x.enq}}
WorkerSuppressed(log) == {d.ev : d \in {x \in log : x.layer \in DedupLayers}}
Suppressed == IngressSuppressed(inLog) \cup WorkerSuppressed(dropLog)

\* C40: an event that a dedup layer suppresses (the ingress fingerprint
\* check, the worker's re-check, the 10 s guard, the 60 s window) leaves
\* the history, the bargain counts and the wire as they were: the step that
\* suppresses it changes none of them, and afterwards no worker holds it,
\* no generation is made and no reply is sent for it, and none was sent or
\* counted before.
SuppressedLeaveNoTrace ==
    /\ [][ (IngressSuppressed(inLog') # IngressSuppressed(inLog)
             \/ WorkerSuppressed(dropLog') # WorkerSuppressed(dropLog))
            => /\ history' = history
               /\ bargain_counts' = bargain_counts
               /\ wire' = wire ]_vars
    /\ [](\A ev \in Suppressed :
             /\ \A w \in Workers : cur[w].task.ev # ev
             /\ \A i \in DOMAIN wire : wire[i].ev # ev
             /\ \A g \in genLog : g.ev # ev
             /\ \A i \in DOMAIN message_queue : message_queue[i].ev # ev
             /\ \A d \in dropLog : d.ev = ev => ~d.incremented)

\* C40, the case: after one answered notice, a second one was suppressed by
\* the 60 s window and a third at ingress; the history holds the two turns
\* of the first and the wire its reply.
SuppressedAfterOneReply ==
    /\ \E d \in dropLog : d.layer = "window"
    /\ IngressSuppressed(inLog) # {}
    /\ Len(wire) = 1
    /\ \A w \in Workers : pc[w] = "idle"
    /\ message_queue = <<>>
    /\ \E k \in DOMAIN history : Len(history[k]) = 2
    /\ \A k \in DOMAIN history : Len(history[k]) \in {0, 2}
====
